---- MODULE Spec2Model ----
(***************************************************************************)
(* The Great Clown sketches: grid construction and focal-point compression *)
(* of the sketch variants kept in the repository.                          *)
(*                                                                         *)
(* Coordinates are fixed-point numbers, CoordScale units per pixel;        *)
(* compression factors, strengths and normalised distances are fixed-point *)
(* numbers, FactorScale units per 1.0.  Products and quotients round to    *)
(* the nearest unit (RDiv), Math.floor is the floor (\div).                *)
(***************************************************************************)
EXTENDS Integers, Sequences, FiniteSets, TLC

\* ------------------------------------------------------------------ bounds
CoordScale == 10
FactorScale == 1000
RootScale == 64
NumSeeds == 12
NumEntropy == 2
ProbeSteps == 20

\* draw passes with the PRNG on that one PRNG instance is followed through
MaxDrawPasses == 2

\* next() calls followed on one PRNG instance between resets
MaxNextCalls == 3

\* ------------------------------------------------------------- arithmetic
Abs(a) == IF a < 0 THEN -a ELSE a

Min(a, b) == IF a < b THEN a ELSE b

Max(a, b) == IF a > b THEN a ELSE b

\* a / b rounded to the nearest unit (b > 0)
RDiv(a, b) == (2 * a + b) \div (2 * b)

\* p5 constrain(n, low, high)
Constrain(n, low, high) == Max(Min(n, high), low)

\* p5 lerp(start, stop, amt), amt in factor units
Lerp(start, stop, amt) == start + RDiv((stop - start) * amt, FactorScale)

RECURSIVE ISqrtBS(_, _, _)
ISqrtBS(n, lo, hi) ==
    IF lo >= hi THEN lo
    ELSE LET mid == (lo + hi + 1) \div 2
         IN IF mid * mid <= n THEN ISqrtBS(n, mid, hi) ELSE ISqrtBS(n, lo, mid - 1)

\* floor of the square root
ISqrt(n) == ISqrtBS(n, 0, 46340)

\* p5 dist(x1, y1, x2, y2)
Dist(x1, y1, x2, y2) ==
    IF y1 = y2 THEN Abs(x1 - x2)
    ELSE IF x1 = x2 THEN Abs(y1 - y2)
    ELSE ISqrt((x1 - x2) * (x1 - x2) + (y1 - y2) * (y1 - y2))

\* fifth root of b^4 on the RootScale lattice: the largest y with y^5 <= b^4 * RootScale
Root45(b) ==
    CHOOSE y \in 0..RootScale :
        /\ y * y * y * y * y <= b * b * b * b * RootScale
        /\ \/ y = RootScale
           \/ (y + 1) * (y + 1) * (y + 1) * (y + 1) * (y + 1) > b * b * b * b * RootScale

\* p5 pow(base, exponent) for base in [0, 1] (factor units) and the exponents
\* the configurations use, given as <<numerator, denominator>>
Pow(base, e) ==
    CASE e = <<1, 1>> -> base
      [] e = <<2, 1>> -> RDiv(base * base, FactorScale)
      [] e = <<3, 2>> -> RDiv(base * ISqrt(base * FactorScale), FactorScale)
      [] e = <<4, 5>> -> RDiv(Root45(RDiv(base * RootScale, FactorScale)) * FactorScale, RootScale)

\* ------------------------------------------------ seeded random generator
\* The linear congruential generator of PRNG.next (the host framework's seeded
\* random() uses the same constants): state * 1664525 + 1013904223 mod 2^32,
\* on 16-bit limbs <<high, low>>.
LcgNext(s) ==
    LET lowProd == s[2] * 26125 + 62303
        highSum == s[1] * 26125 + s[2] * 25 + (lowProd \div 65536) + 15470
    IN <<highSum % 65536, lowProd % 65536>>

SeedState(seed) == <<(seed \div 65536) % 65536, seed % 65536>>

RECURSIVE LcgStream(_, _)
\* the high limbs of the next n states: n successive values of next() * 65536
LcgStream(s, n) ==
    IF n = 0 THEN <<>>
    ELSE LET t == LcgNext(s) IN <<t[1]>> \o LcgStream(t, n - 1)

\* random(min, max) = min + next() * (max - min), for the draw r
RandomRange(r, lo, hi) == lo + ((r * (hi - lo)) \div 65536)

\* the product of two 16-bit limbs, as <<high limb, low limb>>
Mul16(a, b) ==
    LET p1 == a * (b \div 256)
        p0 == a * (b % 256)
        t == (p1 % 256) * 256 + p0
    IN <<p1 \div 256 + t \div 65536, t % 65536>>

\* (x * y) % 2^32 and (x + y) % 2^32 on limb pairs
MulMod32(x, y) ==
    LET ll == Mul16(x[2], y[2])
    IN <<(Mul16(x[1], y[2])[2] + Mul16(x[2], y[1])[2] + ll[1]) % 65536, ll[2]>>

AddMod32(x, y) ==
    LET lo == x[2] + y[2]
    IN <<(x[1] + y[1] + lo \div 65536) % 65536, lo % 65536>>

\* next() as the map state -> (m * state + k) % 2^32
LcgMap == [m |-> <<25, 26125>>, k |-> <<15470, 62303>>]

\* the map f followed by the map g
Compose(f, g) == [m |-> MulMod32(g.m, f.m), k |-> AddMod32(MulMod32(g.m, f.k), g.k)]

RECURSIVE PowerMapsUpTo(_)
\* next() applied 1, 2, 4, ... 2^i times, as maps
PowerMapsUpTo(i) ==
    IF i = 0 THEN <<LcgMap>>
    ELSE LET q == PowerMapsUpTo(i - 1) IN Append(q, Compose(q[i], q[i]))

PowerMaps == PowerMapsUpTo(15)

RECURSIVE LcgJumpFrom(_, _, _)
\* the state after n * 2^(i-1) calls of next() from state s
LcgJumpFrom(s, n, i) ==
    IF n = 0 THEN s
    ELSE LcgJumpFrom(IF n % 2 = 1
                     THEN AddMod32(MulMod32(PowerMaps[i].m, s), PowerMaps[i].k)
                     ELSE s,
                     n \div 2, i + 1)

\* the state after n calls of next() from state s (n < 2^16)
LcgJump(s, n) == LcgJumpFrom(s, n, 1)

\* ---------------------------------------------------------- configuration
\* The sketch variants kept in the repository:
\*   refactored  the cleaned sketch with compressionCenter (jittered grid)
\*   brush       the enhanced-brush sketch with compressionCenter
\*   density     the centre-out PRNG sketch with the density step (8 x 8)
\*   density15   the centre-out PRNG sketch with the density step (15 x 20)
\*   inline      the PRNG sketch that compresses each line as it is built
CenterBuilds == {"refactored", "brush"}

DensityBuilds == {"density", "density15"}

FocalBuilds == DensityBuilds \cup {"inline"}

Builds == CenterBuilds \cup FocalBuilds

canvasWidth == 800
canvasHeight == 1200

Width == canvasWidth * CoordScale

Height == canvasHeight * CoordScale

\* n pixels, and the fraction n/d of 1.0
Px(n) == n * CoordScale

F(n, d) == RDiv(n * FactorScale, d)

\* Config.minCols .. Config.maxRows / Example.minCols .. Example.maxRows
MinCols(b) == IF b = "refactored" THEN 8 ELSE 20

MaxCols(b) == IF b = "refactored" THEN 12 ELSE 30

MinRows(b) == IF b = "refactored" THEN 10 ELSE 30

MaxRows(b) == IF b = "refactored" THEN 15 ELSE 50

\* Config.gridCols, Config.gridRows
GridCols(b) == IF b = "density" THEN 8 ELSE 15

GridRows(b) == IF b = "density" THEN 8 ELSE 20

\* Config.enableCompression / Example.enableCompression
EnableCompression(b) == TRUE

\* compressionStrengthMin/Max, compressionRadiusMin/Max (factor units)
StrengthMin(b) == IF b = "refactored" THEN F(3, 10) ELSE F(95, 100)

StrengthMax(b) == IF b = "refactored" THEN F(6, 10) ELSE F(99, 100)

RadiusMin(b) == IF b = "refactored" THEN F(3, 10) ELSE F(4, 10)

RadiusMax(b) == IF b = "refactored" THEN F(5, 10) ELSE F(6, 10)

\* Config.compressionFalloff / Example.compressionFalloff
CompressionFalloff(b) ==
    CASE b = "refactored" -> <<3, 2>>
      [] b = "brush" -> <<2, 1>>
      [] b = "density" -> <<4, 5>>
      [] b = "density15" -> <<3, 2>>
      [] b = "inline" -> <<1, 1>>

\* Config.compressionRadius (coordinate units) and Config.compressionStrength
\* (factor units) of the focalPoint builds
ConfigRadius(b) ==
    CASE b = "density" -> Px(400)
      [] b = "density15" -> Px(300)
      [] b = "inline" -> Px(200)

ConfigStrength(b) ==
    CASE b = "density" -> 50 * FactorScale
      [] b = "density15" -> 5 * FactorScale
      [] b = "inline" -> 3 * FactorScale

\* ------------------------------------------------------ compression factor
\* The compression state c is [x, y, strength, radius]: compressionCenter with
\* compressionStrength and compressionRadius, or focalPoint with
\* Config.compressionStrength and Config.compressionRadius.
\*
\* compressionCenter builds: 1.0 means "leave the line", small means "move it".
\* focalPoint builds: the factor is the lerp amount, 0.0 means "leave the line".

\* variant of the refactored getCompressionFactor that tests
\* normalizedDistance > 1.0 where the code tests >= 1.0
GetCompressionFactorRefactoredOpen(x, y, c) ==
    IF c.strength = 0 THEN FactorScale
    ELSE LET distance == Dist(x, y, c.x, c.y)
             normalizedDistance == RDiv(distance * FactorScale, c.radius)
         IN IF distance > c.radius THEN FactorScale
            ELSE IF 4 * distance <= c.radius
            THEN LET yellowGradient == 4 * normalizedDistance
                     compressionFactor == F(3, 10) + RDiv(F(4, 10) * yellowGradient, FactorScale)
                 IN Constrain(compressionFactor, F(3, 10), F(7, 10))
            ELSE LET redGradient == RDiv((normalizedDistance - F(1, 4)) * FactorScale, F(3, 4))
                     falloff == Pow(FactorScale - redGradient, CompressionFalloff("refactored"))
                     compressionFactor == F(7, 10) + RDiv(F(3, 10) * falloff, FactorScale)
                 IN Constrain(compressionFactor, F(7, 10), FactorScale)

\* refactored: getCompressionFactor(x, y)
GetCompressionFactorRefactored(x, y, c) ==
    IF c.strength = 0 THEN FactorScale
    ELSE LET distance == Dist(x, y, c.x, c.y)
             normalizedDistance == RDiv(distance * FactorScale, c.radius)
         IN IF distance >= c.radius THEN FactorScale
            ELSE IF 4 * distance <= c.radius
            THEN LET yellowGradient == 4 * normalizedDistance
                     compressionFactor == F(3, 10) + RDiv(F(4, 10) * yellowGradient, FactorScale)
                 IN Constrain(compressionFactor, F(3, 10), F(7, 10))
            ELSE LET redGradient == RDiv((normalizedDistance - F(1, 4)) * FactorScale, F(3, 4))
                     falloff == Pow(FactorScale - redGradient, CompressionFalloff("refactored"))
                     compressionFactor == F(7, 10) + RDiv(F(3, 10) * falloff, FactorScale)
                 IN Constrain(compressionFactor, F(7, 10), FactorScale)

\* variant of the brush getCompressionFactor without the core zone: the
\* gradient of the outer zone is applied from the focal point on
GetCompressionFactorBrushNoCore(x, y, c) ==
    IF c.strength = 0 THEN FactorScale
    ELSE LET distance == Dist(x, y, c.x, c.y)
             normalizedDistance == RDiv(distance * FactorScale, c.radius)
             coreRadius == F(1, 4)
         IN IF distance >= c.radius THEN FactorScale
            ELSE LET adjustedDistance ==
                         RDiv((normalizedDistance - coreRadius) * FactorScale,
                              FactorScale - coreRadius)
                     falloff == Pow(FactorScale - adjustedDistance, CompressionFalloff("brush"))
                     compressionFactor == F(1, 1000) + RDiv(F(999, 1000) * falloff, FactorScale)
                 IN Constrain(compressionFactor, F(1, 1000), FactorScale)

\* brush: getCompressionFactor(x, y)
GetCompressionFactorBrush(x, y, c) ==
    IF c.strength = 0 THEN FactorScale
    ELSE LET distance == Dist(x, y, c.x, c.y)
             normalizedDistance == RDiv(distance * FactorScale, c.radius)
             coreRadius == F(1, 4)
         IN IF distance >= c.radius THEN FactorScale
            ELSE IF 4 * distance <= c.radius
            THEN F(1, 1000)
            ELSE LET adjustedDistance ==
                         RDiv((normalizedDistance - coreRadius) * FactorScale,
                              FactorScale - coreRadius)
                     falloff == Pow(FactorScale - adjustedDistance, CompressionFalloff("brush"))
                     compressionFactor == F(1, 1000) + RDiv(F(999, 1000) * falloff, FactorScale)
                 IN Constrain(compressionFactor, F(1, 1000), FactorScale)

\* density, density15: getCompressionFactor(distance)
GetCompressionFactorDensity(b, distance) ==
    LET normalizedDistance == RDiv(distance * FactorScale, ConfigRadius(b))
    IN IF distance >= ConfigRadius(b) THEN 0
       ELSE LET falloff == Pow(FactorScale - normalizedDistance, CompressionFalloff(b))
            IN RDiv(falloff * 4, 10)

\* inline: getCompressionFactor(distance)
GetCompressionFactorInline(distance) ==
    LET normalizedDistance == RDiv(distance * FactorScale, ConfigRadius("inline"))
    IN IF distance >= ConfigRadius("inline") THEN 0
       ELSE LET falloff == Pow(FactorScale - normalizedDistance, CompressionFalloff("inline"))
            IN RDiv(ConfigStrength("inline") * falloff, FactorScale)

\* the factor getCompressionFactor returns in build b for a horizontal line at
\* the given distance from the focal point
FactorAtDistance(b, distance, c) ==
    CASE b = "refactored" -> GetCompressionFactorRefactored(c.x, c.y + distance, c)
      [] b = "brush" -> GetCompressionFactorBrush(c.x, c.y + distance, c)
      [] b \in DensityBuilds -> GetCompressionFactorDensity(b, distance)
      [] b = "inline" -> GetCompressionFactorInline(distance)

\* ------------------------------------------------- compressionCenter builds
\* variant of initializeCompression with a margin of 5% instead of 15%
InitializeCompressionNearEdge(b, r1, r2, r3, r4) ==
    IF ~EnableCompression(b)
    THEN [x |-> 0, y |-> 0, strength |-> 0, radius |-> 0]
    ELSE [x |-> RandomRange(r1, RDiv(Width * 5, 100), RDiv(Width * 95, 100)),
          y |-> RandomRange(r2, RDiv(Height * 5, 100), RDiv(Height * 95, 100)),
          strength |-> RandomRange(r3, StrengthMin(b), StrengthMax(b)),
          radius |-> RDiv(RandomRange(r4, RadiusMin(b), RadiusMax(b)) * Min(Width, Height),
                          FactorScale)]

\* initializeCompression: focal point away from the edges, random strength and
\* radius; r1..r4 are the four draws it makes
InitializeCompression(b, r1, r2, r3, r4) ==
    IF ~EnableCompression(b)
    THEN [x |-> 0, y |-> 0, strength |-> 0, radius |-> 0]
    ELSE [x |-> RandomRange(r1, RDiv(Width * 15, 100), RDiv(Width * 85, 100)),
          y |-> RandomRange(r2, RDiv(Height * 15, 100), RDiv(Height * 85, 100)),
          strength |-> RandomRange(r3, StrengthMin(b), StrengthMax(b)),
          radius |-> RDiv(RandomRange(r4, RadiusMin(b), RadiusMax(b)) * Min(Width, Height),
                          FactorScale)]

\* the last line of a grid axis moved to the canvas edge
WithLast(g, edge) == [g EXCEPT ![Len(g)] = edge]

RECURSIVE JitteredLines(_, _, _, _, _)
\* refactored buildGrid loop: each line is the previous one plus the tile size
\* plus a jitter of at most a tenth of the tile size; draws rs[k], rs[k+1], ...
JitteredLines(g, n, tile, rs, k) ==
    IF n = 0 THEN g
    ELSE JitteredLines(
             Append(g, g[Len(g)] + tile + RandomRange(rs[k], RDiv(-tile, 10), RDiv(tile, 10))),
             n - 1, tile, rs, k + 1)

\* refactored applyCompressionToGrid: every line, the edges included, is
\* moved by lerp(line, centre, 1 - factor)
ApplyCompressionToGridRefactored(gx, gy, c) ==
    IF ~EnableCompression("refactored") \/ c.strength = 0
    THEN [x |-> gx, y |-> gy]
    ELSE [x |-> [i \in 1..Len(gx) |->
                    Lerp(gx[i], c.x,
                         FactorScale - GetCompressionFactorRefactored(gx[i], c.y, c))],
          y |-> [j \in 1..Len(gy) |->
                    Lerp(gy[j], c.y,
                         FactorScale - GetCompressionFactorRefactored(c.x, gy[j], c))]]

\* variant of the refactored buildGrid whose loops run one iteration short
BuildGridRefactoredShort(nCols, nRows, c, rs, k) ==
    LET gutterX == RDiv(Width * 8, 100)
        tileW == RDiv(Width - gutterX * (nCols + 1), nCols)
        gutterY == RDiv(Height * 8, 100)
        tileH == RDiv(Height - gutterY * (nRows + 1), nRows)
        gx == WithLast(JitteredLines(<<0>>, nCols - 1, tileW, rs, k), Width)
        gy == WithLast(JitteredLines(<<0>>, nRows - 1, tileH, rs, k + nCols), Height)
        out == ApplyCompressionToGridRefactored(gx, gy, c)
    IN [rawX |-> gx, rawY |-> gy, gridX |-> out.x, gridY |-> out.y]

\* refactored buildGrid; the result keeps the grid handed to the compression
\* step (rawX, rawY) next to the final gridX, gridY
BuildGridRefactored(nCols, nRows, c, rs, k) ==
    LET gutterX == RDiv(Width * 8, 100)
        tileW == RDiv(Width - gutterX * (nCols + 1), nCols)
        gutterY == RDiv(Height * 8, 100)
        tileH == RDiv(Height - gutterY * (nRows + 1), nRows)
        gx == WithLast(JitteredLines(<<0>>, nCols, tileW, rs, k), Width)
        gy == WithLast(JitteredLines(<<0>>, nRows, tileH, rs, k + nCols), Height)
        out == IF EnableCompression("refactored")
               THEN ApplyCompressionToGridRefactored(gx, gy, c)
               ELSE [x |-> gx, y |-> gy]
    IN [rawX |-> gx, rawY |-> gy, gridX |-> out.x, gridY |-> out.y]

RECURSIVE AccumulatedLines(_, _, _)
\* brush buildGrid loop: acc += gutter + tile
AccumulatedLines(g, n, step) ==
    IF n = 0 THEN g ELSE AccumulatedLines(Append(g, g[Len(g)] + step), n - 1, step)

\* brush: the last line is moved to the edge when it falls short of it
ReachEdge(g, edge) == IF g[Len(g)] < edge THEN WithLast(g, edge) ELSE g

\* brush applyCompressionToGrid: every line is moved by
\* direction * distance * (1 - factor), direction pointing away from the centre
PushAway(original, centre, factor) ==
    LET direction == IF original > centre THEN 1 ELSE -1
        distance == Abs(original - centre)
    IN original + direction * RDiv(distance * (FactorScale - factor), FactorScale)

ApplyCompressionToGridBrush(gx, gy, c) ==
    IF ~EnableCompression("brush") \/ c.strength = 0
    THEN [x |-> gx, y |-> gy]
    ELSE [x |-> [i \in 1..Len(gx) |->
                    PushAway(gx[i], c.x, GetCompressionFactorBrush(gx[i], c.y, c))],
          y |-> [j \in 1..Len(gy) |->
                    PushAway(gy[j], c.y, GetCompressionFactorBrush(c.x, gy[j], c))]]

\* brush buildGrid
BuildGridBrush(nCols, nRows, c) ==
    LET gutterX == RDiv(Width * 2, 100)
        tileW == RDiv(Width - gutterX * (nCols + 1), nCols)
        gutterY == RDiv(Height * 2, 100)
        tileH == RDiv(Height - gutterY * (nRows + 1), nRows)
        gx == ReachEdge(AccumulatedLines(<<0>>, nCols, gutterX + tileW), Width)
        gy == ReachEdge(AccumulatedLines(<<0>>, nRows, gutterY + tileH), Height)
        out == IF EnableCompression("brush")
               THEN ApplyCompressionToGridBrush(gx, gy, c)
               ELSE [x |-> gx, y |-> gy]
    IN [rawX |-> gx, rawY |-> gy, gridX |-> out.x, gridY |-> out.y]

\* regenerate() of the compressionCenter builds: seed the generator, choose
\* the grid size, initialise the compression, build the grid
Regenerate(b, seed) ==
    LET rs == LcgStream(SeedState(seed), 6 + MaxCols(b) + MaxRows(b))
        nCols == RandomRange(rs[1], MinCols(b), MaxCols(b) + 1)
        nRows == RandomRange(rs[2], MinRows(b), MaxRows(b) + 1)
        c == InitializeCompression(b, rs[3], rs[4], rs[5], rs[6])
        g == IF b = "refactored"
             THEN BuildGridRefactored(nCols, nRows, c, rs, 7)
             ELSE BuildGridBrush(nCols, nRows, c)
    IN [cols |-> nCols, rows |-> nRows, comp |-> c,
        rawX |-> g.rawX, rawY |-> g.rawY, gridX |-> g.gridX, gridY |-> g.gridY]

\* ------------------------------------------------------- focalPoint builds
\* Config.minGap, Config.maxGap (coordinate units)
MinGap(b) == IF b = "density" THEN Px(8) ELSE Px(2)

MaxGap(b) == IF b = "density" THEN Px(11) ELSE Px(6)

\* Config.horizontalDensityMultiplier / verticalDensityMultiplier; the 15 x 20
\* build multiplies by 6 on both axes
HorizontalDensityMultiplier(b) == IF b = "density" THEN 8 ELSE 6

VerticalDensityMultiplier(b) == IF b = "density" THEN 12 ELSE 6

edgeMargin == 20

\* focal point in the middle 40% of the canvas; r1, r2 are the two draws
ChooseFocalPoint(b, r1, r2) ==
    [x |-> RandomRange(r1, RDiv(Width * 3, 10), RDiv(Width * 7, 10)),
     y |-> RandomRange(r2, RDiv(Height * 3, 10), RDiv(Height * 7, 10)),
     strength |-> ConfigStrength(b), radius |-> ConfigRadius(b)]

\* draws one line of the centre-out loops takes: the gap, and the jitter when
\* the PRNG is on
DrawsPerLine(prngOn) == IF prngOn THEN 2 ELSE 1

RECURSIVE SideLines(_, _, _, _, _, _, _, _, _, _)
\* one side of the centre-out build, in the order the lines are generated:
\* current moves by dir * (gap + cell); the line is current plus jitter,
\* constrained to [lo, hi]
SideLines(b, current, n, dir, cell, lo, hi, prngOn, rs, k) ==
    IF n = 0 THEN <<>>
    ELSE LET dynamicGap == RandomRange(rs[k], MinGap(b), MaxGap(b))
             next == current + dir * (dynamicGap + cell)
             jitter == IF prngOn
                       THEN RandomRange(rs[k + 1], RDiv(-cell * 5, 100), RDiv(cell * 5, 100))
                       ELSE 0
         IN <<Constrain(next + jitter, lo, hi)>>
            \o SideLines(b, next, n - 1, dir, cell, lo, hi, prngOn, rs,
                         k + DrawsPerLine(prngOn))

Reverse(q) == [i \in 1..Len(q) |-> q[Len(q) + 1 - i]]

\* one axis of the centre-out build: the centre line, the far side pushed
\* after it and the near side unshifted before it
CentreOutAxis(b, extent, count, prngOn, rs, k) ==
    LET margin == Px(edgeMargin)
        available == (extent - 2 * margin) - (count + 1) * MaxGap(b)
        baseCell == RDiv(available, count)
        centre == RDiv(extent, 2)
        half == count \div 2
        far == SideLines(b, centre, half, 1, baseCell, centre, extent - margin, prngOn, rs, k)
        near == SideLines(b, centre, half, -1, baseCell, margin, centre, prngOn, rs,
                          k + half * DrawsPerLine(prngOn))
    IN Reverse(near) \o <<centre>> \o far

RECURSIVE AdditionalLines(_, _, _, _, _, _)
\* applyCompressionDensity loop over the cells i .. last (1-based): a cell
\* whose midpoint is inside the radius gets floor(factor * multiplier)
\* evenly spaced extra lines
AdditionalLines(b, g, focal, multiplier, i, last) ==
    IF i > last THEN <<>>
    ELSE LET x1 == g[i]
             x2 == g[i + 1]
             mid == RDiv(x1 + x2, 2)
             distance == Abs(mid - focal)
             count == IF distance < ConfigRadius(b)
                      THEN (GetCompressionFactorDensity(b, distance) * multiplier) \div FactorScale
                      ELSE 0
         IN [j \in 1..count |-> x1 + RDiv((x2 - x1) * j, count + 1)]
            \o AdditionalLines(b, g, focal, multiplier, i + 1, last)

\* density applyCompressionToGrid on one axis: the first two and last two
\* lines are skipped, a line inside the radius is moved by
\* lerp(line, focal, factor) and constrained to the margins
CompressAxisDensity(b, g, focal, extent) ==
    [i \in 1..Len(g) |->
        IF i >= 3 /\ i <= Len(g) - 2 /\ Abs(g[i] - focal) < ConfigRadius(b)
        THEN Constrain(Lerp(g[i], focal, GetCompressionFactorDensity(b, Abs(g[i] - focal))),
                       Px(edgeMargin), extent - Px(edgeMargin))
        ELSE g[i]]

ApplyCompressionToGridDensity(b, gx, gy, c) ==
    [x |-> CompressAxisDensity(b, gx, c.x, Width),
     y |-> CompressAxisDensity(b, gy, c.y, Height)]

\* applyCompressionDensity: add the extra lines, sort, then compress
ApplyCompressionDensity(b, gx, gy, c) ==
    LET sx == SortSeq(gx \o AdditionalLines(b, gx, c.x, HorizontalDensityMultiplier(b),
                                            3, Len(gx) - 3),
                      LAMBDA p, q : p < q)
        sy == SortSeq(gy \o AdditionalLines(b, gy, c.y, VerticalDensityMultiplier(b),
                                            3, Len(gy) - 3),
                      LAMBDA p, q : p < q)
        out == ApplyCompressionToGridDensity(b, sx, sy, c)
    IN [rawX |-> sx, rawY |-> sy, gridX |-> out.x, gridY |-> out.y]

\* density buildGrid: both axes centre-out, then the density step
BuildGridDensity(b, prngOn, c, rs, k) ==
    LET gx == CentreOutAxis(b, Width, GridCols(b), prngOn, rs, k)
        gy == CentreOutAxis(b, Height, GridRows(b), prngOn, rs,
                            k + 2 * (GridCols(b) \div 2) * DrawsPerLine(prngOn))
    IN IF ConfigRadius(b) > 0
       THEN ApplyCompressionDensity(b, gx, gy, c)
       ELSE [rawX |-> gx, rawY |-> gy, gridX |-> gx, gridY |-> gy]

\* inline buildGrid, one axis: line i is gutter + i * (cell + gutter) plus a
\* jitter when the PRNG is on; other is the coordinate on the other axis at
\* which the distance to the focal point is taken (the canvas middle)
InlineAxisRaw(extent, count, prngOn, rs, k) ==
    LET gutter == RDiv(extent * 5, 100)
        cell == RDiv(extent - gutter * (count + 1), count)
    IN [n \in 1..(count + 1) |->
           gutter + (n - 1) * (cell + gutter)
           + (IF prngOn
              THEN RandomRange(rs[k + n - 1], RDiv(-cell, 10), RDiv(cell, 10))
              ELSE 0)]

\* inline: a line within the radius is moved by lerp(line, focal, factor)
InlineCompress(v, distance, focal) ==
    IF ConfigRadius("inline") > 0 /\ distance < ConfigRadius("inline")
    THEN Lerp(v, focal, GetCompressionFactorInline(distance))
    ELSE v

BuildGridInline(prngOn, c, rs, k) ==
    LET gx == InlineAxisRaw(Width, GridCols("inline"), prngOn, rs, k)
        gy == InlineAxisRaw(Height, GridRows("inline"), prngOn, rs,
                            k + GridCols("inline") + 1)
    IN [rawX |-> gx, rawY |-> gy,
        gridX |-> [i \in 1..Len(gx) |->
                      InlineCompress(gx[i], Dist(gx[i], RDiv(Height, 2), c.x, c.y), c.x)],
        gridY |-> [j \in 1..Len(gy) |->
                      InlineCompress(gy[j], Dist(RDiv(Width, 2), gy[j], c.x, c.y), c.y)]]

\* buildGrid of the focalPoint builds
BuildGridFocal(b, prngOn, c, rs, k) ==
    IF b = "inline" THEN BuildGridInline(prngOn, c, rs, k)
    ELSE BuildGridDensity(b, prngOn, c, rs, k)

\* draws buildGrid can take in a focalPoint build
GridDraws(b) == 2 * (GridCols(b) + GridRows(b)) + 2

\* prng.random calls buildGrid makes with the PRNG on: gap and jitter of every
\* centre-out line, or the jitter of every line of the inline sketch
GridDrawsTaken(b) ==
    IF b = "inline" THEN (GridCols(b) + 1) + (GridRows(b) + 1)
    ELSE DrawsPerLine(TRUE) * (2 * (GridCols(b) \div 2) + 2 * (GridRows(b) \div 2))

\* renderPaperBackground: the texture points, three prng.random calls each
PaperTexturePoints == 1000

\* the gaps of an axis with a positive extent
PositiveGaps(g) == Cardinality({i \in 1..(Len(g) - 1) : g[i + 1] - g[i] > 0})

\* prng.random calls of one draw pass with the PRNG on: renderPaperBackground,
\* and in the density sketches renderGrid with two calls for every cell of
\* positive width and height
DrawPassDraws(b, gx, gy) ==
    3 * PaperTexturePoints
    + (IF b \in DensityBuilds THEN 2 * PositiveGaps(gx) * PositiveGaps(gy) ELSE 0)

\* ------------------------------------------------------------------ state
VARIABLES
    build,            \* which sketch variant is loaded
    phase,            \* "loaded" before setup() has run, "ready" after
    seedValue,        \* seedValue / Config.seed
    prngSeed,         \* prng.seed (NoSeed while there is no PRNG instance)
    usePRNG,          \* Config.usePRNG
    cols, rows,       \* Config.cols, Config.rows / Config.gridCols, Config.gridRows
    comp,             \* compressionCenter or focalPoint, with strength and radius
    rawX, rawY,       \* the grid as handed to the compression step
    gridX, gridY,     \* the grid lines
    key,              \* the key of the last key press
    redrawRequests,   \* redraw() calls of the last handler run
    exportCalls,      \* saveCanvas() calls of the last handler run
    probe,            \* the last two evaluations of the compression on a probe line
    prngState,        \* prng.state (NoState while there is no PRNG instance)
    passStart,        \* Config.seed and prng.state at the start of each draw pass the
                      \* current PRNG instance has drawn with the PRNG on
    stroke,           \* the last enhancedBrushStroke call
    prngs,            \* two PRNG instances and what next() returned to their callers
    mirror            \* the last drawMirrored call

vars == <<build, phase, seedValue, prngSeed, usePRNG, cols, rows, comp,
          rawX, rawY, gridX, gridY, key, redrawRequests, exportCalls, probe,
          prngState, passStart, stroke, prngs, mirror>>

\* the variables of the stand-alone exercises of single functions
benchVars == <<probe, stroke, prngs, mirror>>

\* prng: undefined
NoState == <<>>

\* Config.seed: null
NoSeed == -1

\* the seeds Math.floor(Math.random() * 1e9) is drawn from
Seeds == {(k * 40000003 + 123456789) % 1000000000 : k \in 0..(NumSeeds - 1)}

\* the seeds Math.floor(Math.random() * 1000000) is drawn from
FocalSeeds == {(k * 37199) % 1000000 : k \in 0..(NumSeeds - 1)}

\* the seeds standing for the entropy behind unseeded random() calls
EntropySeeds == {(k * 611953 + 7) % 1000000 : k \in 0..(NumEntropy - 1)}

AnyEntropy == CHOOSE e \in EntropySeeds : TRUE

Keys == {"r", "R", "s", "S", "d", "D", "x"}

\* PRNG constructor: this.seed = seed || Math.floor(Math.random() * 1000000)
PrngConstructorSeed(seed, fallback) ==
    IF seed = NoSeed \/ seed = 0 THEN fallback ELSE seed

NoCompression == [x |-> 0, y |-> 0, strength |-> 0, radius |-> 0]

Init ==
    /\ build \in Builds
    /\ phase = "loaded"
    /\ seedValue \in (CASE build = "refactored" -> {123456789}
                        [] build = "brush" -> Seeds
                        [] OTHER -> {NoSeed})
    /\ prngSeed = NoSeed
    /\ usePRNG = (build \in FocalBuilds)
    /\ cols = (CASE build = "refactored" -> 0
                 [] build = "brush" -> 2
                 [] OTHER -> GridCols(build))
    /\ rows = (CASE build = "refactored" -> 0
                 [] build = "brush" -> 3
                 [] OTHER -> GridRows(build))
    /\ comp = NoCompression
    /\ rawX = <<>> /\ rawY = <<>>
    /\ gridX = <<>> /\ gridY = <<>>
    /\ key = ""
    /\ redrawRequests = 0
    /\ exportCalls = 0
    /\ probe = <<>>
    /\ prngState = NoState
    /\ passStart = <<>>
    /\ stroke = <<>>
    /\ prngs = <<>>
    /\ mirror = <<>>

\* the focal point a PRNG instance constructed with seed s chooses first
FocalPointOfSeed(b, s) ==
    LET rs == LcgStream(SeedState(s), 2) IN ChooseFocalPoint(b, rs[1], rs[2])

\* focal point and buildGrid of a focalPoint build: with the PRNG on, the
\* draws of the PRNG instance constructed with seed pseed; with the PRNG off,
\* the focal point stays and the unseeded random() draws follow entropy
\* built is prng.state after buildGrid and drawn is prng.state after the draw
\* pass that follows
RegenerateFocal(b, use, pseed, entropy, focal) ==
    LET rs == LcgStream(SeedState(IF use THEN pseed ELSE entropy), 2 + GridDraws(b))
        c == IF use THEN ChooseFocalPoint(b, rs[1], rs[2]) ELSE focal
        g == BuildGridFocal(b, use, c, rs, IF use THEN 3 ELSE 1)
        built == IF use THEN LcgJump(SeedState(pseed), 2 + GridDrawsTaken(b)) ELSE NoState
    IN [comp |-> c, rawX |-> g.rawX, rawY |-> g.rawY, gridX |-> g.gridX, gridY |-> g.gridY,
        built |-> built,
        drawn |-> IF use THEN LcgJump(built, DrawPassDraws(b, g.gridX, g.gridY))
                  ELSE NoState]

\* The regenerations the bounded seeds can produce, tabulated once: the
\* actions look the result of a regeneration up instead of recomputing it.
RECURSIVE RegenerateTable(_, _)
RegenerateTable(b, S) ==
    IF S = {} THEN <<>>
    ELSE LET s == CHOOSE x \in S : TRUE
         IN (s :> Regenerate(b, s)) @@ RegenerateTable(b, S \ {s})

RECURSIVE RegenerateFocalTable(_, _, _, _)
RegenerateFocalTable(b, use, S, focal) ==
    IF S = {} THEN <<>>
    ELSE LET s == CHOOSE x \in S : TRUE
         IN (s :> RegenerateFocal(b, use, s, s, focal))
            @@ RegenerateFocalTable(b, use, S \ {s}, focal)

RECURSIVE RegenerateFocalOffTable(_, _)
RegenerateFocalOffTable(b, P) ==
    IF P = {} THEN <<>>
    ELSE LET f == CHOOSE x \in P : TRUE
         IN (f :> RegenerateFocalTable(b, FALSE, EntropySeeds, f))
            @@ RegenerateFocalOffTable(b, P \ {f})

RegenerateOf ==
    ("refactored" :> RegenerateTable("refactored", Seeds))
    @@ ("brush" :> RegenerateTable("brush", Seeds))

RegenerateFocalOn ==
    ("density" :> RegenerateFocalTable("density", TRUE, FocalSeeds, NoCompression))
    @@ ("density15" :> RegenerateFocalTable("density15", TRUE, FocalSeeds, NoCompression))
    @@ ("inline" :> RegenerateFocalTable("inline", TRUE, FocalSeeds, NoCompression))

RegenerateFocalOff ==
    ("density" :> RegenerateFocalOffTable("density",
                      {FocalPointOfSeed("density", s) : s \in FocalSeeds}))
    @@ ("density15" :> RegenerateFocalOffTable("density15",
                      {FocalPointOfSeed("density15", s) : s \in FocalSeeds}))
    @@ ("inline" :> RegenerateFocalOffTable("inline",
                      {FocalPointOfSeed("inline", s) : s \in FocalSeeds}))

\* regenerate() of a compressionCenter build with the current seed
RegenerateCenter(seed) ==
    \E r \in {RegenerateOf[build][seed]} :
       /\ cols' = r.cols
       /\ rows' = r.rows
       /\ comp' = r.comp
       /\ rawX' = r.rawX /\ rawY' = r.rawY
       /\ gridX' = r.gridX /\ gridY' = r.gridY

\* focal point, buildGrid and the draw pass that follows; seed is Config.seed
RebuildFocal(seed, pseed, entropy) ==
    \E r \in {IF usePRNG THEN RegenerateFocalOn[build][pseed]
              ELSE RegenerateFocalOff[build][comp][entropy]} :
       /\ comp' = r.comp
       /\ rawX' = r.rawX /\ rawY' = r.rawY
       /\ gridX' = r.gridX /\ gridY' = r.gridY
       /\ prngState' = IF usePRNG THEN r.drawn ELSE prngState
       /\ passStart' = IF usePRNG THEN <<[seed |-> seed, state |-> r.built]>>
                       ELSE passStart

\* setup(), and the draw pass p5 runs after it
Setup ==
    /\ phase = "loaded"
    /\ phase' = "ready"
    /\ \/ /\ build \in CenterBuilds
          /\ RegenerateCenter(seedValue)
          /\ redrawRequests' = 1
          /\ UNCHANGED <<seedValue, prngSeed, prngState, passStart>>
       \/ /\ build \in FocalBuilds
          /\ \E fallback \in FocalSeeds :
                /\ prngSeed' = PrngConstructorSeed(seedValue, fallback)
                /\ RebuildFocal(seedValue, PrngConstructorSeed(seedValue, fallback), fallback)
          /\ redrawRequests' = 0
          /\ UNCHANGED <<seedValue, cols, rows>>
    /\ exportCalls' = 0
    /\ UNCHANGED <<build, usePRNG, key>>
    /\ UNCHANGED benchVars

\* keyPressed with a key that no branch names, but which requests a redraw
NoBranchRedraws(k) ==
    /\ redrawRequests' = 1
    /\ exportCalls' = 0
    /\ UNCHANGED <<seedValue, prngSeed, usePRNG, cols, rows, comp,
                   rawX, rawY, gridX, gridY, prngState, passStart>>

\* keyPressed with a key that no branch names
NoBranch(k) ==
    /\ redrawRequests' = 0
    /\ exportCalls' = 0
    /\ UNCHANGED <<seedValue, prngSeed, usePRNG, cols, rows, comp,
                   rawX, rawY, gridX, gridY, prngState, passStart>>

\* keyPressed(), the key being k; redraw() runs the draw pass at once
KeyPressed(k) ==
    /\ phase = "ready"
    /\ key' = k
    /\ \/ /\ k \in {"r", "R"}
          /\ build \in CenterBuilds
          /\ \E seed \in Seeds :
                /\ seedValue' = seed
                /\ RegenerateCenter(seed)
          /\ redrawRequests' = 1
          /\ exportCalls' = 0
          /\ UNCHANGED <<prngSeed, usePRNG, prngState, passStart>>
       \/ /\ k \in {"r", "R"}
          /\ build \in FocalBuilds
          /\ \E seed \in FocalSeeds :
             \E other \in (IF usePRNG /\ seed = 0 THEN FocalSeeds
                           ELSE IF ~usePRNG /\ build \in DensityBuilds THEN EntropySeeds
                           ELSE {AnyEntropy}) :
                /\ seedValue' = seed
                /\ prngSeed' = IF usePRNG THEN PrngConstructorSeed(seed, other) ELSE prngSeed
                /\ RebuildFocal(seed, PrngConstructorSeed(seed, other), other)
          /\ redrawRequests' = 1
          /\ exportCalls' = 0
          /\ UNCHANGED <<usePRNG, cols, rows>>
       \/ /\ k \in {"s", "S"}
          /\ redrawRequests' = 0
          /\ exportCalls' = 1
          /\ UNCHANGED <<seedValue, prngSeed, usePRNG, cols, rows, comp,
                         rawX, rawY, gridX, gridY, prngState, passStart>>
       \/ /\ k \in {"d", "D"}
          /\ build \in FocalBuilds
          /\ usePRNG \/ Len(passStart) < MaxDrawPasses
          /\ usePRNG' = ~usePRNG
          /\ prngState' = IF usePRNG THEN prngState
                          ELSE LcgJump(prngState, DrawPassDraws(build, gridX, gridY))
          /\ passStart' = IF usePRNG THEN passStart
                          ELSE Append(passStart, [seed |-> seedValue, state |-> prngState])
          /\ redrawRequests' = 1
          /\ exportCalls' = 0
          /\ UNCHANGED <<seedValue, prngSeed, cols, rows, comp, rawX, rawY, gridX, gridY>>
       \/ /\ k \notin {"r", "R", "s", "S"}
          /\ (build \in FocalBuilds => k \notin {"d", "D"})
          /\ NoBranch(k)
    /\ UNCHANGED <<build, phase>>
    /\ UNCHANGED benchVars

Next == Setup \/ \E k \in Keys : KeyPressed(k)

Spec == Init /\ [][Next]_vars

\* ------------------------------------------------- the compression, probed
\* getCompressionFactor and the compression step of each build on one
\* horizontal line, for the compression states a regeneration can set: the
\* focal point in the canvas middle, the extreme strengths and radii.

\* the distances probed: 0 px, 30 px, ...
ProbeDistances == {Px(30) * i : i \in 0..ProbeSteps}

ProbeComps(b) ==
    IF b \in CenterBuilds
    THEN {[x |-> RDiv(Width, 2), y |-> RDiv(Height, 2), strength |-> s,
           radius |-> RDiv(r * Min(Width, Height), FactorScale)] :
             s \in {StrengthMin(b), StrengthMax(b)}, r \in {RadiusMin(b), RadiusMax(b)}}
    ELSE {[x |-> RDiv(Width, 2), y |-> RDiv(Height, 2),
           strength |-> ConfigStrength(b), radius |-> ConfigRadius(b)]}

\* the compression step of build b on the horizontal line at y = line; the
\* density builds skip the two outermost lines on each side, so the line is
\* the third of five
CompressLine(b, line, c) ==
    CASE b = "refactored" -> ApplyCompressionToGridRefactored(<<>>, <<line>>, c).y[1]
      [] b = "brush" -> ApplyCompressionToGridBrush(<<>>, <<line>>, c).y[1]
      [] b \in DensityBuilds ->
           ApplyCompressionToGridDensity(b, <<>>,
               <<Px(edgeMargin), Px(edgeMargin), line,
                 Height - Px(edgeMargin), Height - Px(edgeMargin)>>, c).y[3]
      [] b = "inline" -> InlineCompress(line, Dist(RDiv(Width, 2), line, c.x, c.y), c.y)

FactorInit ==
    /\ build \in Builds
    /\ phase = "probing"
    /\ seedValue = NoSeed
    /\ prngSeed = NoSeed
    /\ usePRNG = (build \in FocalBuilds)
    /\ cols = 0 /\ rows = 0
    /\ comp \in ProbeComps(build)
    /\ rawX = <<>> /\ rawY = <<>>
    /\ gridX = <<>> /\ gridY = <<>>
    /\ key = ""
    /\ redrawRequests = 0
    /\ exportCalls = 0
    /\ probe = <<>>
    /\ prngState = NoState
    /\ passStart = <<>>
    /\ stroke = <<>>
    /\ prngs = <<>>
    /\ mirror = <<>>

\* one evaluation: the line at the given distance below (side = 1) or above
\* (side = -1) the focal point; probe keeps the last two evaluations, the
\* latest first
Probe(distance, side) ==
    /\ phase = "probing"
    /\ probe' = <<[distance |-> distance,
                   factor |-> FactorAtDistance(build, distance, comp),
                   before |-> comp.y + side * distance,
                   after |-> CompressLine(build, comp.y + side * distance, comp)]>>
                \o SubSeq(probe, 1, Min(Len(probe), 1))
    /\ UNCHANGED <<build, phase, seedValue, prngSeed, usePRNG, cols, rows, comp,
                   rawX, rawY, gridX, gridY, key, redrawRequests, exportCalls,
                   prngState, passStart, stroke, prngs, mirror>>

FactorNext == \E distance \in ProbeDistances, side \in {-1, 1} : Probe(distance, side)

FactorSpec == FactorInit /\ [][FactorNext]_vars

\* -------------------------------------------------------- the brush system
\* BrushPressure and enhancedBrushStroke of the brush sketch, called on their
\* own: pressures in factor units, lengths in coordinate units.

\* BrushPressure.curve: [0.15, 0.2]
PressureCurve == <<F(15, 100), F(2, 10)>>

\* BrushPressure.min_max: [1.2, 0.9]
PressureMinMax == <<F(12, 10), F(9, 10)>>

\* p5 map(n, start1, stop1, start2, stop2)
Map(n, start1, stop1, start2, stop2) ==
    RDiv((n - start1) * (stop2 - start2), stop1 - start1) + start2

\* p5 randomGaussian(mean, sd), for the standard normal sample z
RandomGaussian(z, mean, sd) == mean + RDiv(z * sd, FactorScale)

\* BrushPressure.calculate(progress, length)
BrushPressureCalculate(progress, length) ==
    LET t == RDiv(progress * FactorScale, length)
        pressureCurve == PressureCurve[1]
                         + RDiv((PressureCurve[2] - PressureCurve[1]) * t, FactorScale)
        pressure == Map(pressureCurve, 0, FactorScale, PressureMinMax[1], PressureMinMax[2])
    IN Constrain(pressure, PressureMinMax[2], PressureMinMax[1])

\* BrushPressure.gaussian without its constrain
BrushPressureGaussianLoose(progress, length, variation, z) ==
    BrushPressureCalculate(progress, length) + RandomGaussian(z, 0, variation)

\* BrushPressure.gaussian(progress, length, variation), randomGaussian
\* returning the sample z
BrushPressureGaussian(progress, length, variation, z) ==
    LET basePressure == BrushPressureCalculate(progress, length)
        gaussianVariation == RandomGaussian(z, 0, variation)
    IN Constrain(basePressure + gaussianVariation, PressureMinMax[2], PressureMinMax[1])

\* enhancedBrushStroke: progress = (i / strokeCount) * length
StrokeProgress(i, strokeCount, length) == RDiv(i * length, strokeCount)

\* enhancedBrushStroke: segments = Math.ceil(length / quality)
Segments(length, quality) == -((-length) \div (quality * CoordScale))

\* the stroke lengths: half a pixel, 50 px, dist(100, 100, 200, 150) = 111.8 px
StrokeLengths == {RDiv(Px(1), 2), Px(50), RDiv(Px(1118), 10)}

\* options.quality as the callers pass it; Example.brushQuality is 4
Qualities == {2, 3, 4}

\* options.strokeCount as the callers pass it; Example.brushStrokeCount is 3
StrokeCounts == {1, 2, 3}

\* Example.brushPressureVariation 0.3 and Config.brushPressureVariation 0.8
PressureVariations == {F(3, 10), F(8, 10)}

\* standard normal samples: three standard deviations either way, and none
GaussianSamples == {-3 * FactorScale, 0, 3 * FactorScale}

\* the progress values of a direct call: the ends, the middle, a third
Progresses(length) == {0, RDiv(length, 3), RDiv(length, 2), length}

BrushInit ==
    /\ build = "brush"
    /\ phase = "brushing"
    /\ seedValue = NoSeed
    /\ prngSeed = NoSeed
    /\ usePRNG = FALSE
    /\ cols = 0 /\ rows = 0
    /\ comp = NoCompression
    /\ rawX = <<>> /\ rawY = <<>>
    /\ gridX = <<>> /\ gridY = <<>>
    /\ key = ""
    /\ redrawRequests = 0
    /\ exportCalls = 0
    /\ probe = <<>>
    /\ prngState = NoState
    /\ passStart = <<>>
    /\ stroke = <<>>
    /\ prngs = <<>>
    /\ mirror = <<>>

\* BrushPressure.gaussian(progress, length, variation) called on its own
PressureCall(progress, length, variation, z) ==
    /\ phase = "brushing"
    /\ stroke' = [call |-> "BrushPressure.gaussian",
                  length |-> length, quality |-> 0, strokeCount |-> 1,
                  progress |-> <<progress>>,
                  calculate |-> <<BrushPressureCalculate(progress, length)>>,
                  pressure |-> <<BrushPressureGaussian(progress, length, variation, z)>>,
                  segments |-> 0,
                  previous |-> <<>>]
    /\ UNCHANGED <<build, phase, seedValue, prngSeed, usePRNG, cols, rows, comp,
                   rawX, rawY, gridX, gridY, key, redrawRequests, exportCalls,
                   probe, prngState, passStart, prngs, mirror>>

\* enhancedBrushStroke with a stroke of the given length; zs[i] is the sample
\* randomGaussian returns for overlapping stroke i.  previous keeps length,
\* quality and segments of the enhancedBrushStroke call before this one.
EnhancedBrushStroke(length, strokeCount, quality, pressureVariation, zs) ==
    /\ phase = "brushing"
    /\ stroke' = [call |-> "enhancedBrushStroke",
                  length |-> length, quality |-> quality, strokeCount |-> strokeCount,
                  progress |-> [i \in 1..strokeCount |->
                                   StrokeProgress(i - 1, strokeCount, length)],
                  calculate |-> [i \in 1..strokeCount |->
                                   BrushPressureCalculate(
                                       StrokeProgress(i - 1, strokeCount, length), length)],
                  pressure |-> [i \in 1..strokeCount |->
                                   BrushPressureGaussian(
                                       StrokeProgress(i - 1, strokeCount, length), length,
                                       pressureVariation, zs[i])],
                  segments |-> Segments(length, quality),
                  previous |-> IF stroke # <<>> /\ stroke.call = "enhancedBrushStroke"
                               THEN <<[length |-> stroke.length, quality |-> stroke.quality,
                                       segments |-> stroke.segments]>>
                               ELSE <<>>]
    /\ UNCHANGED <<build, phase, seedValue, prngSeed, usePRNG, cols, rows, comp,
                   rawX, rawY, gridX, gridY, key, redrawRequests, exportCalls,
                   probe, prngState, passStart, prngs, mirror>>

BrushNext ==
    \/ \E length \in StrokeLengths, variation \in PressureVariations, z \in GaussianSamples :
          \E progress \in Progresses(length) : PressureCall(progress, length, variation, z)
    \/ \E length \in StrokeLengths, strokeCount \in StrokeCounts, quality \in Qualities,
          pressureVariation \in PressureVariations :
          \E zs \in [1..strokeCount -> GaussianSamples] :
             EnhancedBrushStroke(length, strokeCount, quality, pressureVariation, zs)

BrushSpec == BrushInit /\ [][BrushNext]_vars

\* ------------------------------------------------------- the PRNG class
\* Two PRNG instances constructed with the same argument, and the values
\* next() returns to their callers.  A returned value next() is recorded as
\* the state it is computed from, state / 2^32.

\* the arguments new PRNG(Config.seed) is given: null, or a drawn seed
PrngSeedArgs == FocalSeeds \cup {NoSeed}

\* new PRNG(seed), Math.floor(Math.random() * 1000000) giving fallback
PrngNew(seed, fallback) ==
    [seed |-> PrngConstructorSeed(seed, fallback),
     state |-> SeedState(PrngConstructorSeed(seed, fallback))]

\* next(): the instance afterwards
PrngNext(p) == [p EXCEPT !.state = LcgNext(p.state)]

\* reset(): the instance afterwards
PrngReset(p) == [p EXCEPT !.state = SeedState(p.seed)]

\* an instance as its caller sees it: the state right after construction,
\* the values returned since construction or the last reset(), the values
\* returned between construction and the first reset()
Constructed(p) ==
    [prng |-> p, initial |-> p.state, returned |-> <<>>, first |-> <<>>, wasReset |-> FALSE]

PrngInit ==
    /\ build = "density"
    /\ phase = "prng"
    /\ seedValue = NoSeed
    /\ prngSeed = NoSeed
    /\ usePRNG = TRUE
    /\ cols = 0 /\ rows = 0
    /\ comp = NoCompression
    /\ rawX = <<>> /\ rawY = <<>>
    /\ gridX = <<>> /\ gridY = <<>>
    /\ key = ""
    /\ redrawRequests = 0
    /\ exportCalls = 0
    /\ probe = <<>>
    /\ prngState = NoState
    /\ passStart = <<>>
    /\ stroke = <<>>
    /\ prngs = <<>>
    /\ mirror = <<>>

\* new PRNG(seed), twice
PrngConstruct(seed, fallback1, fallback2) ==
    /\ phase = "prng"
    /\ prngs' = [supplied |-> seed,
                 inst |-> <<Constructed(PrngNew(seed, fallback1)),
                            Constructed(PrngNew(seed, fallback2))>>]
    /\ UNCHANGED <<build, phase, seedValue, prngSeed, usePRNG, cols, rows, comp,
                   rawX, rawY, gridX, gridY, key, redrawRequests, exportCalls,
                   probe, prngState, passStart, stroke, mirror>>

\* next() on instance i
PrngNextCall(i) ==
    /\ phase = "prng" /\ prngs # <<>>
    /\ Len(prngs.inst[i].returned) < MaxNextCalls
    /\ LET p == PrngNext(prngs.inst[i].prng)
       IN prngs' = [prngs EXCEPT
                      !.inst[i].prng = p,
                      !.inst[i].returned = Append(@, p.state),
                      !.inst[i].first = IF prngs.inst[i].wasReset THEN @
                                        ELSE Append(@, p.state)]
    /\ UNCHANGED <<build, phase, seedValue, prngSeed, usePRNG, cols, rows, comp,
                   rawX, rawY, gridX, gridY, key, redrawRequests, exportCalls,
                   probe, prngState, passStart, stroke, mirror>>

\* reset() on instance i
PrngResetCall(i) ==
    /\ phase = "prng" /\ prngs # <<>>
    /\ prngs' = [prngs EXCEPT
                   !.inst[i].prng = PrngReset(@),
                   !.inst[i].returned = <<>>,
                   !.inst[i].wasReset = TRUE]
    /\ UNCHANGED <<build, phase, seedValue, prngSeed, usePRNG, cols, rows, comp,
                   rawX, rawY, gridX, gridY, key, redrawRequests, exportCalls,
                   probe, prngState, passStart, stroke, mirror>>

PrngSpecNext ==
    \/ \E seed \in PrngSeedArgs :
          \E fallback1, fallback2 \in (IF seed = NoSeed \/ seed = 0 THEN EntropySeeds
                                       ELSE {AnyEntropy}) :
             PrngConstruct(seed, fallback1, fallback2)
    \/ \E i \in 1..2 : PrngNextCall(i)
    \/ \E i \in 1..2 : PrngResetCall(i)

PrngSpec == PrngInit /\ [][PrngSpecNext]_vars

\* ------------------------------------------------ the mirrored shapes pass
\* drawMirrored(() => { drawCircles(); drawCentralClown(); }, ...) of the
\* distorted-grid sketch, on p5's seeded random stream (the same generator as
\* the PRNG class).  The two invocations of the half-drawing function are
\* followed grid point by grid point of leftHalfPoints; what is kept of a
\* grid point is the circle drawn on it: its diameter in coordinate units, 0
\* for none.

\* Params.gridColumns, Params.gridRows
gridColumns == 12

gridRows == 16

\* random() < Params.circleProbability for the stream state s:
\* s / 2^32 < 0.26, i.e. s <= 1116691496 = 17039 * 65536 + 23592
CircleAt(s) == s[1] < 17039 \/ (s[1] = 17039 /\ s[2] <= 23592)

\* |random(2) - 1| * 2^31 for the stream state s, as a limb pair
AbsCentred(s) ==
    IF s[1] >= 32768 THEN <<s[1] - 32768, s[2]>>
    ELSE IF s[2] = 0 THEN <<32768 - s[1], 0>>
    ELSE <<32767 - s[1], 65536 - s[2]>>

\* the square of a limb pair, as four limbs, the highest first
Square32(a) ==
    LET q == Mul16(a[2], a[2])
        p == Mul16(a[1], a[2])
        r == Mul16(a[1], a[1])
        m1 == 2 * p[1] + ((2 * p[2]) \div 65536)
        l1 == q[1] + ((2 * p[2]) % 65536)
        l2 == r[2] + (m1 % 65536) + (l1 \div 65536)
        l3 == r[1] + (m1 \div 65536) + (l2 \div 65536)
    IN <<l3, l2 % 65536, l1 % 65536, q[2]>>

\* randomGaussian: w = x1 * x1 + x2 * x2 < 1 for x1, x2 drawn at the stream
\* states s1, s2
InsideUnitCircle(s1, s2) ==
    LET x == Square32(AbsCentred(s1))
        y == Square32(AbsCentred(s2))
        t0 == x[4] + y[4]
        t1 == x[3] + y[3] + (t0 \div 65536)
        t2 == x[2] + y[2] + (t1 \div 65536)
    IN x[1] + y[1] + (t2 \div 65536) < 16384

RECURSIVE RandomGaussianPair(_)
\* the stream state after the do-while loop of randomGaussian; the call after
\* it returns the second value of the pair without drawing
RandomGaussianPair(s) ==
    LET s1 == LcgNext(s)
        s2 == LcgNext(s1)
    IN IF InsideUnitCircle(s1, s2) THEN s2 ELSE RandomGaussianPair(s2)

\* drawCircles, one grid point: the stream state afterwards and the diameter
\* random(circleSizeMin, circleSizeMax) of the circle drawn, 0 for none
CirclePoint(s) ==
    LET s1 == LcgNext(s)
        s2 == LcgNext(s1)
    IN IF CircleAt(s1)
       THEN [rng |-> RandomGaussianPair(s2), d |-> RandomRange(s2[1], Px(18), Px(48))]
       ELSE [rng |-> s1, d |-> 0]

\* the stream states drawMirrored can be entered in, one for every seed (the
\* draws of the passes before it are not followed)
MirrorStarts == {SeedState(s) : s \in Seeds}

MirrorInit ==
    /\ build = "refactored"
    /\ phase = "drawing"
    /\ seedValue = NoSeed
    /\ prngSeed = NoSeed
    /\ usePRNG = FALSE
    /\ cols = 0 /\ rows = 0
    /\ comp = NoCompression
    /\ rawX = <<>> /\ rawY = <<>>
    /\ gridX = <<>> /\ gridY = <<>>
    /\ key = ""
    /\ redrawRequests = 0
    /\ exportCalls = 0
    /\ probe = <<>>
    /\ prngState = NoState
    /\ passStart = <<>>
    /\ stroke = <<>>
    /\ prngs = <<>>
    /\ mirror = <<>>

\* drawMirrored is entered: push(), and drawHalfFn() starts
DrawMirrored(s) ==
    /\ phase = "drawing"
    /\ IF mirror = <<>> THEN TRUE ELSE mirror.pc = "done"
    /\ mirror' = [start |-> s, rng |-> s, pc |-> "first", column |-> 0, row |-> 0,
                  first |-> <<>>, second |-> <<>>]
    /\ UNCHANGED <<build, phase, seedValue, prngSeed, usePRNG, cols, rows, comp,
                   rawX, rawY, gridX, gridY, key, redrawRequests, exportCalls,
                   probe, prngState, passStart, stroke, prngs>>

\* drawCircles, one iteration of the inner loop, in either invocation
DrawCirclesPoint ==
    /\ phase = "drawing"
    /\ mirror # <<>>
    /\ IF mirror = <<>> THEN FALSE
       ELSE /\ mirror.pc \in {"first", "second"}
            /\ mirror.column <= gridColumns
            /\ LET pt == CirclePoint(mirror.rng)
               IN mirror' = [mirror EXCEPT
                               !.rng = pt.rng,
                               !.row = IF @ = gridRows THEN 0 ELSE @ + 1,
                               !.column = IF mirror.row = gridRows THEN @ + 1 ELSE @,
                               !.first = IF mirror.pc = "first" THEN Append(@, pt.d) ELSE @,
                               !.second = IF mirror.pc = "second" THEN Append(@, pt.d) ELSE @]
    /\ UNCHANGED <<build, phase, seedValue, prngSeed, usePRNG, cols, rows, comp,
                   rawX, rawY, gridX, gridY, key, redrawRequests, exportCalls,
                   probe, prngState, passStart, stroke, prngs>>

\* the end of the first drawHalfFn(): drawCentralClown draws twice for each
\* of its five streaks; then pop(), push(), and translate(random(-jitterX,
\* jitterX), random(-jitterY, jitterY)) draws twice; drawHalfFn() starts again
MirrorHalf ==
    /\ phase = "drawing"
    /\ mirror # <<>>
    /\ IF mirror = <<>> THEN FALSE
       ELSE /\ mirror.pc = "first"
            /\ mirror.column = gridColumns + 1
            /\ mirror' = [mirror EXCEPT
                            !.rng = LcgJump(LcgJump(@, 2 * 5), 2),
                            !.pc = "second",
                            !.column = 0]
    /\ UNCHANGED <<build, phase, seedValue, prngSeed, usePRNG, cols, rows, comp,
                   rawX, rawY, gridX, gridY, key, redrawRequests, exportCalls,
                   probe, prngState, passStart, stroke, prngs>>

\* the end of the second drawHalfFn(): drawCentralClown, then pop()
MirrorEnd ==
    /\ phase = "drawing"
    /\ mirror # <<>>
    /\ IF mirror = <<>> THEN FALSE
       ELSE /\ mirror.pc = "second"
            /\ mirror.column = gridColumns + 1
            /\ mirror' = [mirror EXCEPT !.rng = LcgJump(@, 2 * 5), !.pc = "done"]
    /\ UNCHANGED <<build, phase, seedValue, prngSeed, usePRNG, cols, rows, comp,
                   rawX, rawY, gridX, gridY, key, redrawRequests, exportCalls,
                   probe, prngState, passStart, stroke, prngs>>

MirrorNext ==
    \/ \E s \in MirrorStarts : DrawMirrored(s)
    \/ DrawCirclesPoint
    \/ MirrorHalf
    \/ MirrorEnd

MirrorSpec == MirrorInit /\ [][MirrorNext]_vars

\* ------------------------------------------ the parabolic-junction buildGrid

\* the largest Config.cols and Config.rows buildGrid is applied to
MaxJunctionCols == 12

MaxJunctionRows == 12

\* buildGrid of the parabolic-junction sketch (left half of the canvas):
\* gutter = 4% of the canvas, tile = (extent - gutter * (n + 1)) / n, and n
\* steps of gutter + tile from 0; no line is produced for n = 0
BuildGridJunction(nCols, nRows) ==
    LET gutterX == RDiv(Width * 4, 100)
        tileW == IF nCols = 0 THEN 0
                 ELSE RDiv((Width \div 2) - gutterX * (nCols + 1), nCols)
        gutterY == RDiv(Height * 4, 100)
        tileH == IF nRows = 0 THEN 0
                 ELSE RDiv(Height - gutterY * (nRows + 1), nRows)
    IN [gridX |-> AccumulatedLines(<<0>>, nCols, gutterX + tileW),
        gridY |-> AccumulatedLines(<<0>>, nRows, gutterY + tileH)]

\* the sketch is loaded with some Config.cols and Config.rows; nothing is built
JunctionInit ==
    /\ build = "junction"
    /\ phase = "loaded"
    /\ seedValue = NoSeed
    /\ prngSeed = NoSeed
    /\ usePRNG = FALSE
    /\ cols \in 1..MaxJunctionCols
    /\ rows \in 1..MaxJunctionRows
    /\ comp = NoCompression
    /\ rawX = <<>> /\ rawY = <<>>
    /\ gridX = <<>> /\ gridY = <<>>
    /\ key = ""
    /\ redrawRequests = 0
    /\ exportCalls = 0
    /\ probe = <<>>
    /\ prngState = NoState
    /\ passStart = <<>>
    /\ stroke = <<>>
    /\ prngs = <<>>
    /\ mirror = <<>>

\* buildGrid()
JunctionBuildGrid ==
    /\ build = "junction"
    /\ phase = "loaded"
    /\ LET g == BuildGridJunction(cols, rows)
       IN /\ gridX' = g.gridX
          /\ gridY' = g.gridY
    /\ phase' = "ready"
    /\ UNCHANGED <<build, seedValue, prngSeed, usePRNG, cols, rows, comp, rawX, rawY,
                   key, redrawRequests, exportCalls, prngState, passStart>>
    /\ UNCHANGED benchVars

JunctionNext == JunctionBuildGrid

JunctionSpec == JunctionInit /\ [][JunctionNext]_vars

\* ------------------------------------------- the compression strength, varied
\* applyCompressionToGrid of the compressionCenter builds on the grid a
\* regeneration has built, with compressionStrength set to other values of the
\* configured range; the focal point, the radius and the grid stay as they are.

\* the strengths tried: the ends and the middle of the configured range
StrengthsTried(b) ==
    {StrengthMin(b), RDiv(StrengthMin(b) + StrengthMax(b), 2), StrengthMax(b)}

\* applyCompressionToGrid of build b
ApplyCompressionToGrid(b, gx, gy, c) ==
    IF b = "refactored"
    THEN ApplyCompressionToGridRefactored(gx, gy, c)
    ELSE ApplyCompressionToGridBrush(gx, gy, c)

\* setup(): regenerate() has built the grid
StrengthInit ==
    /\ build \in CenterBuilds
    /\ phase = "strength"
    /\ seedValue \in Seeds
    /\ prngSeed = NoSeed
    /\ usePRNG = FALSE
    /\ LET r == Regenerate(build, seedValue)
       IN /\ cols = r.cols /\ rows = r.rows
          /\ comp = r.comp
          /\ rawX = r.rawX /\ rawY = r.rawY
          /\ gridX = r.gridX /\ gridY = r.gridY
    /\ key = ""
    /\ redrawRequests = 0
    /\ exportCalls = 0
    /\ probe = <<>>
    /\ prngState = NoState
    /\ passStart = <<>>
    /\ stroke = <<>>
    /\ prngs = <<>>
    /\ mirror = <<>>

\* applyCompressionToGrid with compressionStrength = s on the uncompressed
\* grid; probe keeps the last two applications, the latest first
ApplyWithStrength(s) ==
    /\ phase = "strength"
    /\ LET out == ApplyCompressionToGrid(build, rawX, rawY, [comp EXCEPT !.strength = s])
       IN probe' = <<[strength |-> s, gridX |-> out.x, gridY |-> out.y]>>
                   \o SubSeq(probe, 1, Min(Len(probe), 1))
    /\ UNCHANGED <<build, phase, seedValue, prngSeed, usePRNG, cols, rows, comp,
                   rawX, rawY, gridX, gridY, key, redrawRequests, exportCalls,
                   prngState, passStart, stroke, prngs, mirror>>

StrengthNext == \E s \in StrengthsTried(build) : ApplyWithStrength(s)

StrengthSpec == StrengthInit /\ [][StrengthNext]_vars

\* ------------------------------------------------ grids with no row or column
\* buildGrid and renderGrid of the part_001 sketch ("refactored"), and
\* buildGridPoints and drawPebbleGrid of the distorted-grid sketch ("clown"),
\* for small grid sizes, zero included.

\* the largest number of columns and of rows configured
MaxSmallGrid == 3

SmallGridBuilds == {"refactored", "clown"}

\* variant of renderGutLines that draws the first and the last grid line too
GutLinesAll(g) == Len(g)

\* renderGutLines, one axis: a line for every grid line but the first and last
GutLines(g) == Max(0, Len(g) - 2)

\* renderGrid: the cells drawn by the double loop over Config.rows and
\* Config.cols, and the gut lines of renderGutLines
RenderGridRefactored(nCols, nRows, gx, gy) ==
    [cells |-> Cardinality((0..(nCols - 1)) \X (0..(nRows - 1))),
     vertical |-> GutLines(gx),
     horizontal |-> GutLines(gy),
     calls |-> 0,
     bands |-> 0,
     raised |-> FALSE]

\* buildGridPoints: map(i, 0, gridColumns, 0, width / 2) is 0 / 0 = NaN for
\* gridColumns = 0, and so is every y for gridRows = 0
FiniteX(nCols) == nCols # 0

FiniteY(nRows) == nRows # 0

\* drawPebbleGrid: the columns of leftHalfPoints it reads a point from; the
\* vertical bands read columns i, i + 1 or i - 1 inside the loop over j <
\* gridRows, the horizontal bands columns i and i + 1 for i < gridColumns
ColumnsRead(nCols, nRows) ==
    (IF nRows = 0 THEN {}
     ELSE UNION {{i} \cup (IF i < nCols THEN {i + 1} ELSE IF i > 0 THEN {i - 1} ELSE {}) :
                   i \in 0..nCols})
    \cup UNION {{i, i + 1} : i \in 0..(nCols - 1)}

\* drawPebbleGrid: the band segments it reaches the bezier loop for (calls:
\* segLen < 0.0001 is false for a NaN length), and those of them whose
\* coordinates are all finite (bands: a curve through NaN leaves no mark);
\* reading a point of a column that does not exist raises a TypeError
DrawPebbleGrid(nCols, nRows) ==
    LET segments == Cardinality((0..nCols) \X (0..(nRows - 1)))
                    + Cardinality((0..nRows) \X (0..(nCols - 1)))
    IN [cells |-> 0,
        vertical |-> 0,
        horizontal |-> 0,
        calls |-> segments,
        bands |-> IF FiniteX(nCols) /\ FiniteY(nRows) THEN segments ELSE 0,
        raised |-> ~(ColumnsRead(nCols, nRows) \subseteq 0..nCols)]

\* the sketch is loaded with some grid size; nothing is built
SmallGridInit ==
    /\ build \in SmallGridBuilds
    /\ phase = "configured"
    /\ seedValue \in Seeds
    /\ prngSeed = NoSeed
    /\ usePRNG = FALSE
    /\ cols \in 0..MaxSmallGrid
    /\ rows \in 0..MaxSmallGrid
    /\ comp = NoCompression
    /\ rawX = <<>> /\ rawY = <<>>
    /\ gridX = <<>> /\ gridY = <<>>
    /\ key = ""
    /\ redrawRequests = 0
    /\ exportCalls = 0
    /\ probe = <<>>
    /\ prngState = NoState
    /\ passStart = <<>>
    /\ stroke = <<>>
    /\ prngs = <<>>
    /\ mirror = <<>>

\* part_001: randomSeed, initializeCompression, buildGrid, and the renderGrid
\* of the draw pass that follows
BuildAndRenderRefactored ==
    /\ build = "refactored"
    /\ phase = "configured"
    /\ LET rs == LcgStream(SeedState(seedValue), 6 + 2 * MaxSmallGrid + 2)
           c == InitializeCompression(build, rs[3], rs[4], rs[5], rs[6])
           g == BuildGridRefactored(cols, rows, c, rs, 7)
       IN /\ comp' = c
          /\ rawX' = g.rawX /\ rawY' = g.rawY
          /\ gridX' = g.gridX /\ gridY' = g.gridY
          /\ probe' = <<RenderGridRefactored(cols, rows, g.gridX, g.gridY)>>
    /\ phase' = "rendered"
    /\ UNCHANGED <<build, seedValue, prngSeed, usePRNG, cols, rows, key,
                   redrawRequests, exportCalls, prngState, passStart, stroke,
                   prngs, mirror>>

\* distorted-grid sketch: buildGridPoints, and the drawPebbleGrid of the draw
\* pass that follows
BuildAndRenderClown ==
    /\ build = "clown"
    /\ phase = "configured"
    /\ probe' = <<DrawPebbleGrid(cols, rows)>>
    /\ phase' = "rendered"
    /\ UNCHANGED <<build, seedValue, prngSeed, usePRNG, cols, rows, comp, rawX, rawY,
                   gridX, gridY, key, redrawRequests, exportCalls, prngState,
                   passStart, stroke, prngs, mirror>>

SmallGridNext ==
    \/ BuildAndRenderRefactored
    \/ BuildAndRenderClown

SmallGridSpec == SmallGridInit /\ [][SmallGridNext]_vars

\* ------------------------------------------- the PRNG class, its value ranges
\* One PRNG instance and the calls made on it.  Seeds and states are limb
\* pairs <<hi, lo>> standing for hi * 65536 + lo; state * 1664525 + 1013904223
\* is below 2^53, so the double arithmetic of next() is exact.

\* the seeds new PRNG is given: 0, 1, 2^31 - 1, 2^31, 2^32 - 1, the seeds
\* 653637408 and 634785765 whose first draws are the largest and the smallest
\* state, and the drawn seeds
WideSeeds ==
    {<<0, 0>>, <<0, 1>>, <<32767, 65535>>, <<32768, 0>>, <<65535, 65535>>,
     <<9973, 46880>>, <<9686, 4069>>}
    \cup {SeedState(s) : s \in FocalSeeds}

\* the [min, max] randomInt is called with
IntRanges == {<<0, 0>>, <<0, 1>>, <<-3, 4>>, <<1, 6>>, <<0, 255>>}

\* the array lengths randomChoice is called with
ArrayLengths == {1, 2, 7}

\* Math.floor(next() * n) for next() = s / 2^32 and an integer n
ScaleFloor(s, n) == (s[1] * n + ((s[2] * n) \div 65536)) \div 65536

\* Math.round(next() * n)
ScaleRound(s, n) == (s[1] * n + 32768 + ((s[2] * n) \div 65536)) \div 65536

\* variant of randomInt that rounds instead of taking the floor
PrngRandomIntRounded(p, min, max) ==
    LET q == PrngNext(p)
    IN [prng |-> q, value |-> min + ScaleRound(q.state, max + 1 - min)]

\* randomInt(min, max): Math.floor(min + next() * (max + 1 - min)); the
\* instance afterwards and the value returned
PrngRandomInt(p, min, max) ==
    LET q == PrngNext(p)
    IN [prng |-> q, value |-> min + ScaleFloor(q.state, max + 1 - min)]

\* randomChoice(array): the instance afterwards and the index read
PrngRandomChoice(p, length) == PrngRandomInt(p, 0, length - 1)

RangeInit ==
    /\ build = "density"
    /\ phase = "ranges"
    /\ seedValue = NoSeed
    /\ prngSeed = NoSeed
    /\ usePRNG = TRUE
    /\ cols = 0 /\ rows = 0
    /\ comp = NoCompression
    /\ rawX = <<>> /\ rawY = <<>>
    /\ gridX = <<>> /\ gridY = <<>>
    /\ key = ""
    /\ redrawRequests = 0
    /\ exportCalls = 0
    /\ probe = <<>>
    /\ prngState = NoState
    /\ passStart = <<>>
    /\ stroke = <<>>
    /\ prngs = <<>>
    /\ mirror = <<>>

\* new PRNG(seed): this.seed = seed || Math.floor(Math.random() * 1000000)
RangeConstruct(seed, fallback) ==
    /\ phase = "ranges"
    /\ LET used == IF seed = <<0, 0>> THEN SeedState(fallback) ELSE seed
       IN prngs' = [prng |-> [seed |-> used, state |-> used], calls |-> 0,
                    last |-> [op |-> "new", min |-> 0, max |-> 0, value |-> 0]]
    /\ UNCHANGED <<build, phase, seedValue, prngSeed, usePRNG, cols, rows, comp,
                   rawX, rawY, gridX, gridY, key, redrawRequests, exportCalls,
                   probe, prngState, passStart, stroke, mirror>>

\* next(); the value returned is state / 2^32 of the state afterwards
RangeNext ==
    /\ phase = "ranges" /\ prngs # <<>>
    /\ IF prngs = <<>> THEN FALSE
       ELSE /\ prngs.calls < MaxNextCalls
            /\ LET q == PrngNext(prngs.prng)
               IN prngs' = [prng |-> q, calls |-> prngs.calls + 1,
                            last |-> [op |-> "next", min |-> 0, max |-> 0,
                                      value |-> q.state]]
    /\ UNCHANGED <<build, phase, seedValue, prngSeed, usePRNG, cols, rows, comp,
                   rawX, rawY, gridX, gridY, key, redrawRequests, exportCalls,
                   probe, prngState, passStart, stroke, mirror>>

\* randomInt(min, max)
RangeRandomInt(min, max) ==
    /\ phase = "ranges" /\ prngs # <<>>
    /\ IF prngs = <<>> THEN FALSE
       ELSE /\ prngs.calls < MaxNextCalls
            /\ LET r == PrngRandomInt(prngs.prng, min, max)
               IN prngs' = [prng |-> r.prng, calls |-> prngs.calls + 1,
                            last |-> [op |-> "randomInt", min |-> min, max |-> max,
                                      value |-> r.value]]
    /\ UNCHANGED <<build, phase, seedValue, prngSeed, usePRNG, cols, rows, comp,
                   rawX, rawY, gridX, gridY, key, redrawRequests, exportCalls,
                   probe, prngState, passStart, stroke, mirror>>

\* randomChoice(array) on an array of the given length; value is the index
RangeRandomChoice(length) ==
    /\ phase = "ranges" /\ prngs # <<>>
    /\ IF prngs = <<>> THEN FALSE
       ELSE /\ prngs.calls < MaxNextCalls
            /\ LET r == PrngRandomChoice(prngs.prng, length)
               IN prngs' = [prng |-> r.prng, calls |-> prngs.calls + 1,
                            last |-> [op |-> "randomChoice", min |-> 0,
                                      max |-> length - 1, value |-> r.value]]
    /\ UNCHANGED <<build, phase, seedValue, prngSeed, usePRNG, cols, rows, comp,
                   rawX, rawY, gridX, gridY, key, redrawRequests, exportCalls,
                   probe, prngState, passStart, stroke, mirror>>

RangeSpecNext ==
    \/ \E seed \in WideSeeds :
          \E fallback \in (IF seed = <<0, 0>> THEN EntropySeeds ELSE {AnyEntropy}) :
             RangeConstruct(seed, fallback)
    \/ RangeNext
    \/ \E range \in IntRanges : RangeRandomInt(range[1], range[2])
    \/ \E length \in ArrayLengths : RangeRandomChoice(length)

RangeSpec == RangeInit /\ [][RangeSpecNext]_vars

\* ------------------------------------------- the distorted grid, regenerated
\* setup, keyPressed and regenerate of the distorted-grid sketch; gridX[i][j]
\* and gridY[i][j] are the coordinates of leftHalfPoints[i - 1][j - 1].

distortionStrength == 34

\* the values seedValue takes: Math.floor(Math.random() * 1e9)
ClownSeeds == Seeds \cup FocalSeeds

\* buildGridPoints: the lattice position of column i, map(i, 0, gridColumns,
\* 0, width / 2), and of row j, map(j, 0, gridRows, 0, height)
LatticeX(i) == RDiv(i * (Width \div 2), gridColumns)

LatticeY(j) == RDiv(j * Height, gridRows)

\* buildGridPoints: leftHalfPoints is emptied and filled with the lattice
BuildGridPoints ==
    [x |-> [i \in 1..(gridColumns + 1) |-> [j \in 1..(gridRows + 1) |-> LatticeX(i - 1)]],
     y |-> [i \in 1..(gridColumns + 1) |-> [j \in 1..(gridRows + 1) |-> LatticeY(j - 1)]]]

\* noise(): the library's Perlin noise, a value of [0, 1) for each argument
\* pair; r is the draw of the stream seeded by noiseSeed that stands for it
Noise(r) == (r * FactorScale) \div 65536

\* distortGridPoints: dx = (n1 - 0.5) * 2 * distortionStrength, and dy alike
Distortion(n) == RDiv((2 * n - FactorScale) * Px(distortionStrength), FactorScale)

\* the draws behind the noise values of column i: two for each of its points
NoiseDraws(seed, i) ==
    LcgStream(LcgJump(SeedState(seed), 2 * (i - 1) * (gridRows + 1)), 2 * (gridRows + 1))

\* distortGridPoints: every point of pts is shifted in place
DistortGridPoints(pts, seed) ==
    [x |-> [i \in 1..Len(pts.x) |->
              LET rs == NoiseDraws(seed, i)
              IN [j \in 1..Len(pts.x[i]) |->
                    pts.x[i][j] + Distortion(Noise(rs[2 * j - 1]))]],
     y |-> [i \in 1..Len(pts.y) |->
              LET rs == NoiseDraws(seed, i)
              IN [j \in 1..Len(pts.y[i]) |->
                    pts.y[i][j] + Distortion(Noise(rs[2 * j]))]]]

\* variant of regenerate that distorts the points it finds
RegenerateClownKeeping(pts, seed) ==
    DistortGridPoints(IF pts.x = <<>> THEN BuildGridPoints ELSE pts, seed)

\* buildGridPoints() and distortGridPoints() for every seed, tabulated once
ClownGrids == [s \in ClownSeeds |-> DistortGridPoints(BuildGridPoints, s)]

\* regenerate(): buildGridPoints(), then distortGridPoints(); pts is
\* leftHalfPoints as regenerate finds it
RegenerateClown(pts, seed) == ClownGrids[seed]

\* the sketch is loaded: seedValue is drawn, leftHalfPoints is empty
ClownInit ==
    /\ build = "clown"
    /\ phase = "loaded"
    /\ seedValue \in ClownSeeds
    /\ prngSeed = NoSeed
    /\ usePRNG = FALSE
    /\ cols = gridColumns /\ rows = gridRows
    /\ comp = NoCompression
    /\ rawX = <<>> /\ rawY = <<>>
    /\ gridX = <<>> /\ gridY = <<>>
    /\ key = ""
    /\ redrawRequests = 0
    /\ exportCalls = 0
    /\ probe = <<>>
    /\ prngState = NoState
    /\ passStart = <<>>
    /\ stroke = <<>>
    /\ prngs = <<>>
    /\ mirror = <<>>

\* setup(): regenerate()
ClownSetup ==
    /\ build = "clown"
    /\ phase = "loaded"
    /\ LET pts == RegenerateClown([x |-> gridX, y |-> gridY], seedValue)
       IN gridX' = pts.x /\ gridY' = pts.y
    /\ phase' = "ready"
    /\ redrawRequests' = 1
    /\ UNCHANGED <<build, seedValue, prngSeed, usePRNG, cols, rows, comp, rawX, rawY,
                   key, exportCalls, prngState, passStart>>
    /\ UNCHANGED benchVars

\* keyPressed(): r/R draws a new seedValue and regenerates, s/S saves the
\* canvas, any other key does nothing
ClownKeyPressed(k, seed) ==
    /\ build = "clown"
    /\ phase = "ready"
    /\ key' = k
    /\ \/ /\ k \in {"r", "R"}
          /\ seedValue' = seed
          /\ LET pts == RegenerateClown([x |-> gridX, y |-> gridY], seed)
             IN gridX' = pts.x /\ gridY' = pts.y
          /\ redrawRequests' = 1
          /\ exportCalls' = 0
       \/ /\ k \in {"s", "S"}
          /\ exportCalls' = 1
          /\ redrawRequests' = 0
          /\ UNCHANGED <<seedValue, gridX, gridY>>
       \/ /\ k \notin {"r", "R", "s", "S"}
          /\ exportCalls' = 0
          /\ redrawRequests' = 0
          /\ UNCHANGED <<seedValue, gridX, gridY>>
    /\ UNCHANGED <<build, phase, prngSeed, usePRNG, cols, rows, comp, rawX, rawY,
                   prngState, passStart>>
    /\ UNCHANGED benchVars

ClownNext ==
    \/ ClownSetup
    \/ \E k \in Keys : \E seed \in (IF k \in {"r", "R"} THEN ClownSeeds ELSE {NoSeed}) :
          ClownKeyPressed(k, seed)

ClownSpec == ClownInit /\ [][ClownNext]_vars

\* -------------------------------------------------------------- properties
NonDecreasing(g) == \A i \in 1..(Len(g) - 1) : g[i] <= g[i + 1]

StrictlyIncreasing(g) == \A i \in 1..(Len(g) - 1) : g[i] < g[i + 1]

Within(g, extent) == \A i \in 1..Len(g) : 0 <= g[i] /\ g[i] <= extent

\* the line at `before` ends at `after` no farther from the focal coordinate
\* and on the same side of it
TowardFocal(before, after, focal) ==
    /\ Abs(after - focal) <= Abs(before - focal)
    /\ (before - focal) * (after - focal) >= 0

\* the distance buildGrid takes for a vertical line at x / a horizontal line at y
LineDistanceX(b, x, c) ==
    IF b = "inline" THEN Dist(x, RDiv(Height, 2), c.x, c.y) ELSE Abs(x - c.x)

LineDistanceY(b, y, c) ==
    IF b = "inline" THEN Dist(RDiv(Width, 2), y, c.x, c.y) ELSE Abs(y - c.y)

\* C1, as the code has it: after buildGrid, a build without a density step
\* (refactored, brush, inline) holds exactly cols+1 lines in gridX and rows+1
\* in gridY; a build with the density step holds the 2*floor(n/2)+1 lines of
\* the centre-out loops plus the lines the density step inserts, and its
\* compression step keeps that count.
C1_LineCounts ==
    phase = "ready" =>
        IF build \in DensityBuilds
        THEN /\ Len(gridX) >= 2 * (cols \div 2) + 1
             /\ Len(gridY) >= 2 * (rows \div 2) + 1
             /\ Len(gridX) = Len(rawX)
             /\ Len(gridY) = Len(rawY)
        ELSE /\ Len(gridX) = cols + 1
             /\ Len(gridY) = rows + 1

\* C1 witness: a key press regenerated the refactored build with more than
\* the minimum column count, and gridX holds cols+1 lines.
C1_Regenerated ==
    /\ phase = "ready" /\ build = "refactored" /\ key = "r"
    /\ cols > MinCols("refactored")
    /\ Len(gridX) = cols + 1

\* C1 as stated: after buildGrid, in every build, the density step included,
\* gridX holds exactly cols+1 lines and gridY exactly rows+1.
C1_LineCountsEveryBuild ==
    phase = "ready" => Len(gridX) = cols + 1 /\ Len(gridY) = rows + 1

\* C2 as stated: after buildGrid of a compressionCenter build, compression
\* step included, gridX starts at 0 and ends at the canvas width and gridY
\* starts at 0 and ends at the canvas height.
C2_EdgesAtCanvasBounds ==
    phase = "ready" /\ build \in CenterBuilds =>
        /\ gridX[1] = 0 /\ gridX[Len(gridX)] = Width
        /\ gridY[1] = 0 /\ gridY[Len(gridY)] = Height

\* C3 as stated: for every grid size regenerate picks and every jitter, the
\* gridX and gridY of the refactored build are strictly increasing.
C3_StrictlyIncreasing ==
    phase = "ready" /\ build = "refactored" =>
        StrictlyIncreasing(gridX) /\ StrictlyIncreasing(gridY)

\* C4 as stated: for every distance and every configured strength, radius and
\* falloff, getCompressionFactor returns a value in [0, 1].
C4_FactorInUnitInterval ==
    \A i \in 1..Len(probe) : 0 <= probe[i].factor /\ probe[i].factor <= FactorScale

\* C5: in the compressionCenter builds, at a distance of at least the
\* compression radius getCompressionFactor returns 1.0 and
\* applyCompressionToGrid leaves the line where it was.
C5_UnchangedBeyondRadius ==
    build \in CenterBuilds =>
        \A i \in 1..Len(probe) :
            probe[i].distance >= comp.radius =>
                probe[i].factor = FactorScale /\ probe[i].after = probe[i].before

\* C5 witness: a line exactly on the radius and a line beyond it were probed
\* in a compressionCenter build.
C5_ProbedAtAndBeyondRadius ==
    /\ build \in CenterBuilds /\ Len(probe) = 2
    /\ probe[1].distance = comp.radius /\ probe[2].distance > comp.radius
    /\ probe[1].before # comp.y

\* C6: in the compressionCenter builds, the displaced fraction
\* 1 - getCompressionFactor at any distance is at most the fraction at
\* distance 0.
C6_MaximalAtCentre ==
    build \in CenterBuilds /\ Len(probe) = 2 /\ probe[2].distance = 0 =>
        FactorScale - probe[1].factor <= FactorScale - probe[2].factor

\* C6 witness: distance 0 was probed, then a line inside the radius that is
\* displaced by a smaller fraction.
C6_ProbedCentreThenInside ==
    /\ build \in CenterBuilds /\ Len(probe) = 2
    /\ probe[2].distance = 0
    /\ probe[1].distance > 0 /\ probe[1].distance < comp.radius
    /\ probe[1].factor > probe[2].factor

\* C7 as stated: in the compressionCenter builds, for distances d1 <= d2 the
\* displaced fraction 1 - getCompressionFactor at d1 is at least that at d2.
C7_FallsOffWithDistance ==
    build \in CenterBuilds /\ Len(probe) = 2 /\ probe[2].distance <= probe[1].distance =>
        FactorScale - probe[2].factor >= FactorScale - probe[1].factor

\* C8 as stated: a grid axis that is non-decreasing when handed to
\* applyCompressionToGrid is non-decreasing after it.
C8_OrderPreserved ==
    phase = "ready" /\ build \in CenterBuilds \cup DensityBuilds =>
        /\ NonDecreasing(rawX) => NonDecreasing(gridX)
        /\ NonDecreasing(rawY) => NonDecreasing(gridY)

\* C9 as stated: after buildGrid and its compression step every line lies
\* within the canvas, 0 <= gridX[i] <= width and 0 <= gridY[j] <= height.
C9_WithinCanvas ==
    phase = "ready" => Within(gridX, Width) /\ Within(gridY, Height)

\* C10 as stated: with compression enabled, a line inside the compression
\* radius ends no farther from the focal coordinate than it started and on
\* the same side of it.
C10_TowardFocalPoint ==
    phase = "ready" /\ build \in CenterBuilds \cup {"inline"} =>
        /\ \A i \in 1..Len(rawX) :
              LineDistanceX(build, rawX[i], comp) < comp.radius =>
                  TowardFocal(rawX[i], gridX[i], comp.x)
        /\ \A j \in 1..Len(rawY) :
              LineDistanceY(build, rawY[j], comp) < comp.radius =>
                  TowardFocal(rawY[j], gridY[j], comp.y)

\* C11: for every stroke length > 0 and every progress in [0, length], the
\* progress values (i / strokeCount) * length of enhancedBrushStroke among
\* them, BrushPressure.calculate and BrushPressure.gaussian return a pressure
\* within [0.9, 1.2], whatever the Gaussian sample and the variation.
C11_PressureWithinRange ==
    stroke # <<>> =>
        \A i \in 1..Len(stroke.pressure) :
            /\ PressureMinMax[2] <= stroke.calculate[i]
            /\ stroke.calculate[i] <= PressureMinMax[1]
            /\ PressureMinMax[2] <= stroke.pressure[i]
            /\ stroke.pressure[i] <= PressureMinMax[1]

\* C11 witness: enhancedBrushStroke drew three overlapping strokes of a
\* 50 px stroke, the Gaussian sample pushing one pressure onto the lower end
\* of the range and one onto the upper end.
C11_ClampedAtBothEnds ==
    /\ stroke # <<>> /\ stroke.call = "enhancedBrushStroke"
    /\ stroke.length = Px(50) /\ stroke.strokeCount = 3
    /\ stroke.progress[3] > 0
    /\ \E i, j \in 1..3 : /\ stroke.pressure[i] = PressureMinMax[2]
                          /\ stroke.pressure[j] = PressureMinMax[1]

\* C12, as the code has it: a key press other than r, R, s, S, d, D changes
\* no sketch state (seed, PRNG, randomness mode, grid lines, focal point) and
\* triggers neither a redraw nor an export; in the sketches with a PRNG, d or
\* D flips Config.usePRNG and requests one redraw, leaving seed, grid lines
\* and focal point alone; in the sketches without one, d and D do nothing.
C12_OtherKeysChangeNothing ==
    [][phase = "ready" =>
         /\ (key' \notin {"r", "R", "s", "S", "d", "D"}
             \/ (key' \in {"d", "D"} /\ build \in CenterBuilds)) =>
               /\ UNCHANGED <<seedValue, prngSeed, usePRNG, cols, rows, comp,
                              gridX, gridY, prngState>>
               /\ redrawRequests' = 0
               /\ exportCalls' = 0
         /\ (key' \in {"d", "D"} /\ build \in FocalBuilds) =>
               /\ usePRNG' = ~usePRNG
               /\ UNCHANGED <<seedValue, prngSeed, cols, rows, comp, gridX, gridY>>
               /\ redrawRequests' = 1
               /\ exportCalls' = 0]_vars

\* C12 witness: in a sketch with a PRNG, d turned the PRNG off and then a key
\* without a branch was pressed: no redraw, no export, the grid in place.
C12_OtherKeyAfterToggle ==
    /\ phase = "ready" /\ build \in FocalBuilds
    /\ key = "x" /\ ~usePRNG
    /\ redrawRequests = 0 /\ exportCalls = 0
    /\ Len(gridX) > 0 /\ seedValue \in FocalSeeds

\* C12 as stated: a key press other than r, R, s, S changes no sketch state
\* (seed, randomness mode, grid lines, focal point) and triggers neither a
\* redraw nor an export.
C12_OnlyFourKeysAct ==
    [][phase = "ready" /\ key' \notin {"r", "R", "s", "S"} =>
         /\ UNCHANGED <<seedValue, usePRNG, comp, gridX, gridY>>
         /\ redrawRequests' = 0
         /\ exportCalls' = 0]_vars

\* C13 as stated: each r or R press replaces the seed with a freshly drawn
\* one, rebuilds the grid using that new seed, requests exactly one redraw and
\* no export; each s or S press triggers exactly one export and no redraw.
C13_RegenerateOrExport ==
    phase = "ready" =>
        /\ key \in {"r", "R"} =>
              /\ redrawRequests = 1 /\ exportCalls = 0
              /\ IF build \in CenterBuilds
                 THEN /\ seedValue \in Seeds
                      /\ gridX = RegenerateOf[build][seedValue].gridX
                      /\ gridY = RegenerateOf[build][seedValue].gridY
                 ELSE /\ seedValue \in FocalSeeds
                      /\ gridX = RegenerateFocalOn[build][seedValue].gridX
                      /\ gridY = RegenerateFocalOn[build][seedValue].gridY
        /\ key \in {"s", "S"} => exportCalls = 1 /\ redrawRequests = 0

\* C14 as stated: on every regeneration (r or R) a new focal point is chosen
\* before the grid is built, in every randomness mode: the focal point after
\* the key press is one this regeneration draws (from the generator it seeds,
\* or with the PRNG off from its unseeded random() calls), and the grid is the
\* one compressed around it.
C14_FocalPointOfThisRegeneration ==
    [][phase = "ready" /\ key' \in {"r", "R"} =>
         IF build \in CenterBuilds
         THEN /\ comp' = RegenerateOf[build][seedValue'].comp
              /\ gridX' = RegenerateOf[build][seedValue'].gridX
              /\ gridY' = RegenerateOf[build][seedValue'].gridY
         ELSE IF usePRNG'
         THEN /\ comp' = FocalPointOfSeed(build, prngSeed')
              /\ gridX' = RegenerateFocalOn[build][prngSeed'].gridX
              /\ gridY' = RegenerateFocalOn[build][prngSeed'].gridY
         ELSE \E e \in EntropySeeds : comp' = FocalPointOfSeed(build, e)]_vars

\* C15 as stated: gridX, gridY and the focal point after a regeneration are a
\* function of the new seed and the configuration only: a regeneration that
\* draws the seed the one before it drew, in the same randomness mode, ends
\* with the same grid lines and the same focal point.
C15_SameSeedSameGrid ==
    [][(/\ phase = "ready"
        /\ key \in {"r", "R"} /\ key' \in {"r", "R"}
        /\ seedValue' = seedValue /\ usePRNG' = usePRNG) =>
            /\ gridX' = gridX /\ gridY' = gridY
            /\ comp' = comp]_vars

\* one sequence of returned values repeats the other as far as both go
SamePrefix(q1, q2) == \A n \in 1..Min(Len(q1), Len(q2)) : q1[n] = q2[n]

\* C16 as stated: two PRNG instances constructed with the same seed return
\* identical sequences of next() values, and after reset() an instance returns
\* again the sequence it returned after construction.
C16_Reproducible ==
    prngs # <<>> =>
        /\ prngs.supplied # NoSeed =>
              SamePrefix(prngs.inst[1].first, prngs.inst[2].first)
        /\ \A i \in 1..2 :
              prngs.inst[i].wasReset =>
                 SamePrefix(prngs.inst[i].returned, prngs.inst[i].first)

\* C17 as stated: for every number supplied as seed, the PRNG uses exactly
\* that number as this.seed and as its initial state; a random seed is drawn
\* only when the seed is null.
C17_SuppliedSeedUsed ==
    prngs # <<>> /\ prngs.supplied # NoSeed =>
        \A i \in 1..2 :
            /\ prngs.inst[i].prng.seed = prngs.supplied
            /\ prngs.inst[i].initial = SeedState(prngs.supplied)

\* C18 as stated: with the PRNG on, every draw pass between two
\* regenerations starts from the PRNG state the first draw pass for that seed
\* started from, and so uses the same random values.
C18_DrawPassesStartAlike ==
    phase = "ready" /\ build \in FocalBuilds =>
        \A i, j \in 1..Len(passStart) :
            passStart[i].seed = passStart[j].seed =>
                passStart[i].state = passStart[j].state

\* C19 as stated: in enhancedBrushStroke, for a fixed stroke length, the
\* number of segments each overlapping stroke is subdivided into is
\* non-decreasing in the quality option.
C19_SegmentsGrowWithQuality ==
    (/\ stroke # <<>> /\ stroke.call = "enhancedBrushStroke"
     /\ stroke.previous # <<>>
     /\ stroke.previous[1].length = stroke.length
     /\ stroke.previous[1].quality <= stroke.quality) =>
        stroke.previous[1].segments <= stroke.segments

\* C20 as stated: drawMirrored renders the right half as the mirror image of
\* the left half up to one jitter translation: both invocations of the
\* half-drawing function make the same random choices, circles at the same
\* grid intersections with the same sizes.
C20_HalvesAlike ==
    mirror # <<>> /\ mirror.pc = "done" => mirror.second = mirror.first

\* C21 as stated: in the parabolic-junction build, buildGrid starts at 0 and
\* accumulates so that the last gridX coordinate lands at width/2 and the last
\* gridY coordinate at height (to within the rounding of the accumulated
\* steps), for every cols >= 1 and rows >= 1.
C21_LastLineOnTheEdge ==
    (build = "junction" /\ phase = "ready" /\ cols >= 1 /\ rows >= 1) =>
        /\ gridX[1] = 0 /\ gridY[1] = 0
        /\ Abs(gridX[Len(gridX)] - (Width \div 2)) <= cols
        /\ Abs(gridY[Len(gridY)] - Height) <= rows

\* C22 as stated: for the same grid, focal point and radius, a larger non-zero
\* compressionStrength displaces every line inside the radius at least as far
\* toward the focal point as a smaller one, and strictly farther for at least
\* one such line (a line that is not on the focal point itself).
C22_StrongerDisplacesFarther ==
    LET insideX == {i \in 1..Len(rawX) :
                      rawX[i] # comp.x /\ Abs(rawX[i] - comp.x) < comp.radius}
        insideY == {j \in 1..Len(rawY) :
                      rawY[j] # comp.y /\ Abs(rawY[j] - comp.y) < comp.radius}
        towardX(p, i) == Abs(rawX[i] - comp.x) - Abs(p.gridX[i] - comp.x)
        towardY(p, j) == Abs(rawY[j] - comp.y) - Abs(p.gridY[j] - comp.y)
    IN (/\ phase = "strength" /\ Len(probe) = 2
        /\ probe[1].strength > probe[2].strength /\ probe[2].strength > 0
        /\ insideX \cup insideY # {}) =>
           /\ \A i \in insideX : towardX(probe[1], i) >= towardX(probe[2], i)
           /\ \A j \in insideY : towardY(probe[1], j) >= towardY(probe[2], j)
           /\ \/ \E i \in insideX : towardX(probe[1], i) > towardX(probe[2], i)
              \/ \E j \in insideY : towardY(probe[1], j) > towardY(probe[2], j)

C24_FocalPointAwayFromEdges ==
    (phase = "ready" /\ EnableCompression(build)) =>
        /\ build \in CenterBuilds =>
              /\ RDiv(Width * 15, 100) <= comp.x /\ comp.x <= RDiv(Width * 85, 100)
              /\ RDiv(Height * 15, 100) <= comp.y /\ comp.y <= RDiv(Height * 85, 100)
        /\ build = "density" =>
              /\ RDiv(Width * 3, 10) <= comp.x /\ comp.x <= RDiv(Width * 7, 10)
              /\ RDiv(Height * 3, 10) <= comp.y /\ comp.y <= RDiv(Height * 7, 10)

\* C24, the case reached: a regeneration of a compressionCenter build has
\* put the focal point in the outer fifth of the canvas width.
C24_FocalPointNearMargin ==
    /\ phase = "ready" /\ build \in CenterBuilds /\ key = "r"
    /\ EnableCompression(build)
    /\ (comp.x < RDiv(Width * 2, 10) \/ comp.x > RDiv(Width * 8, 10))

\* C25: for every integer seed in [0, 2^32), after any number of next() calls
\* the PRNG state is an integer in [0, 2^32) and every next() result r
\* satisfies 0 <= r < 1; randomInt(min, max) returns an integer in [min, max]
\* and randomChoice reads an index inside its non-empty array.
C25_ValuesInRange ==
    (phase = "ranges" /\ prngs # <<>>) =>
        /\ prngs.prng.state \in (0..65535) \X (0..65535)
        /\ prngs.last.op = "next" => prngs.last.value \in (0..65535) \X (0..65535)
        /\ prngs.last.op \in {"randomInt", "randomChoice"} =>
              /\ prngs.last.value \in Int
              /\ prngs.last.min <= prngs.last.value
              /\ prngs.last.value <= prngs.last.max

\* C25, the case reached: next() has returned its largest value,
\* (2^32 - 1) / 2^32, inside randomInt(1, 6), which returns 6.
C25_LargestDraw ==
    /\ phase = "ranges" /\ prngs # <<>>
    /\ prngs.last.op = "randomInt"
    /\ prngs.prng.state = <<65535, 65535>>
    /\ prngs.last.max = 6 /\ prngs.last.value = 6

\* C26: in the distorted-grid sketch distortion never accumulates: after any
\* number of regenerations leftHalfPoints has exactly (gridColumns + 1) x
\* (gridRows + 1) points and each point lies within distortionStrength, per
\* axis, of its undistorted lattice position.
C26_DistortionBounded ==
    (build = "clown" /\ phase = "ready") =>
        /\ Len(gridX) = gridColumns + 1 /\ Len(gridY) = gridColumns + 1
        /\ \A i \in 1..(gridColumns + 1) :
              /\ Len(gridX[i]) = gridRows + 1 /\ Len(gridY[i]) = gridRows + 1
              /\ \A j \in 1..(gridRows + 1) :
                    /\ Abs(gridX[i][j] - LatticeX(i - 1)) <= Px(distortionStrength)
                    /\ Abs(gridY[i][j] - LatticeY(j - 1)) <= Px(distortionStrength)

\* C26, the case reached: the r key has regenerated a grid that was already
\* distorted, and a point of the new grid is more than 30 px from its lattice
\* position.
C26_RegeneratedFarPoint ==
    /\ build = "clown" /\ phase = "ready" /\ key = "r"
    /\ \E i \in 1..(gridColumns + 1) : \E j \in 1..(gridRows + 1) :
          Abs(gridX[i][j] - LatticeX(i - 1)) > Px(30)

====
